---------------------------- MODULE Spec2Model ----------------------------


(***************************************************************************)
(* A model of the nephe cloud-network security controller: the AWS         *)
(* security adapter (rule update with rollback, member update, delete,     *)
(* snapshot read) and the reconciler's cloud synchronisation.              *)
(***************************************************************************)
EXTENDS Integers, Sequences, FiniteSets, TLC

(***************************************************************************)
(* Bounds of the model.                                                    *)
(***************************************************************************)
\* Rule ids 0..MaxRule per direction.  Rule 0 is the rule whose
\* NetworkPolicy reference does not split into "namespace/name".
MaxRule == 1

\* Network interfaces of the VPC.
NumNics == 1

\* Goroutines calling the adapter, and cloud accounts.
NumCallers == 2

NumAccounts == 2
NumModifyNics == 3

\* Bookmark events delivered, and calls of syncWithCloud that pass its gate.
MaxBookmarks == 4

MaxSyncs == 2

\* Calls that the cloud refuses for no reason the VPC's state gives.
MaxFaults == 1

\* The bookmarks to wait for before the first synchronisation (the
\* configuration's default).
npSyncReadyBookMarkCnt == 3

(***************************************************************************)
(* Cloud rules handed to UpdateSecurityGroupRules.                         *)
(***************************************************************************)
Directions == {"ingress", "egress"}

RuleIds == 0..MaxRule

\* The rules whose description can be generated, and so the only ones a
\* call ever carries to the cloud.
GoodRuleIds == 1..MaxRule

\* securitygroup.CloudRule: Rule is an *IngressRule or an *EgressRule (dir),
\* NetworkPolicy is the namespaced name of the owning policy.
CloudRules == [dir : Directions, id : RuleIds]

\* GenerateCloudDescription fails unless the namespaced name has exactly
\* two "/"-separated tokens; rule 0 carries such a name.
DescriptionOk(rule) == rule.id # 0

VARIABLES
    mutex,               \* the package-level sync.Mutex: "free" or "held"
    ruPc,                \* position inside UpdateSecurityGroupRules
    addRules, rmRules,   \* its arguments
    rollbackRmIngress, rollbackAddIngress, rollbackRmEgress,
    ruErr,               \* the returned error: "nil", "lookup", "step0".."step3"
    sgIngress, sgEgress, \* rules of the cloud security group (rule ids)
    preIngress, preEgress, \* the same when the call started
    cloudLog,            \* authorize/revoke calls received by the cloud
    nicAttachment,       \* NIC -> the instance it is attached to, or "none"
    nicGroups,           \* NIC -> the cloud security groups on it
    sgInCloud,           \* the managed security groups that exist in the VPC
    defaultSgCached,     \* vpcIDToDefaultSecurityGroup holds the VPC
    memPc,               \* "idle", "returned" after a member/delete call,
                         \* "repeated" after the delete was made again
    memArgs,             \* the arguments of that call
    memErr,              \* its returned error, "nil" when none
    memCalls,            \* NIC -> the modify call issued for it, if any
    memDeleteCall,       \* the deleteSecurityGroup call: "none", "ok", "failed"
    preNicGroups,        \* nicGroups when the call started
    thPc,                \* caller -> "idle", "lock", "running", "snapshot"
    thOp,                \* caller -> the adapter operation it called
    thAcct,              \* caller -> the account of that operation
    snapPending,         \* caller -> accounts whose cloud view is being read
    bookmarkCnt,         \* NetworkPolicyReconciler.bookmarkCnt
    syncedWithCloud,     \* NetworkPolicyReconciler.syncedWithCloud
    sgIndex,             \* addrSGIndexer and appliedToSGIndexer: group -> entry
    invNics,             \* inventory: VM -> its network interfaces
    policy,              \* networkPolicyIndexer: appliedTo group -> its policy
    cloudRuleIdx,        \* cloudRuleIndexer: appliedTo group -> its CloudRules
    sgRules,             \* rules of the appliedTo groups in the cloud
    dirtyGroups,         \* appliedTo groups whose trackers were marked dirty
    syncPc,              \* position inside syncWithCloud, "idle" outside
    syncPending,         \* what the current loop of syncWithCloud has left
    snapshot,            \* the contents received from the sync channel
    cloudSeen,           \* keys of cloudAddrSGs and cloudAppliedToSGs
    rscWithUnknownSGs,   \* NICs reported with other groups attached
    syncPass,            \* sync bodies started so far
    syncQuietStart,      \* the pass began right after the one before it
    syncCalls,           \* log: snapshot reads, sg.sync calls, adapter calls
    bookmarksProcessed,  \* Bookmark events handed to processBookMark
    lastEvent,           \* the last event or trigger processed
    bookmarkRet,         \* what processBookMark returned for it
    bookmarkSyncs,       \* sync bodies started by processBookMark
    faults,              \* calls the cloud has refused so far
    trackerIndexed,      \* cloudResourceNPTrackerIndexer holds the tracker
    dirty,               \* cloudResourceNPTracker.dirty, "unset" until stored
    appliedToSGs,        \* cloudResourceNPTracker.appliedToSGs (its keys)
    prevAppliedToSGs,    \* cloudResourceNPTracker.prevAppliedToSGs (its keys)
    sgStatus,            \* appliedTo group -> its status: "nil" or "err"
    networkPolicies,     \* networkPolicyIndexer: the policies it holds
    vmNamespaces,        \* inventory: namespaces of the VMs with the cloud id
    vmPolicyIndex,       \* virtualMachinePolicyIndexer: namespace -> NPStatus
    trkOp,               \* the last tracker operation and what it met
    accountProviderType, \* CloudProviderAccountReconciler.accountProviderType
    accPollers,          \* Poller.accPollers: account -> its poller's channel
    pollChans,           \* the pollers' channels made so far, in order
    pendingSyncCount,    \* CloudProviderAccountReconciler.pendingSyncCount
    cpaSynced,           \* the controller's sync status is set
    initialized,         \* CloudProviderAccountReconciler.initialized
    acctOp,              \* the last reconcile and what it did
    cacheAccess,         \* accesses of vpcIDToDefaultSecurityGroup under way
    umPc,                \* caller -> position inside the member update
    nicWorker,           \* caller -> its per-NIC goroutines' positions
    cacheLog,            \* the kinds of access made, by who made them
    descOp,              \* the last call on a rule description and its result
    vmStore,             \* Inventory.vmStore: VM name -> the cached VirtualMachine
    vmOp,                \* the last BuildVmCache, its arguments and store calls
    cpaListed,           \* the accounts that Start listed
    cpaOutcome,          \* account -> how its reconciles have ended so far
    networkInterfacesToModify, \* the network interfaces of the map handed to the call
    modPc,               \* the caller's position: idle, range (receiving from ch), returned
    modWorker,           \* network interface -> its goroutine: position, modify calls made, result
    wg,                  \* the WaitGroup's counter
    chClosed,            \* the closing goroutine has closed ch
    modErr               \* err of the caller: the network interfaces whose errors were appended

ruleVars == <<ruPc, addRules, rmRules, rollbackRmIngress, rollbackAddIngress,
              rollbackRmEgress, ruErr, sgIngress, sgEgress, preIngress,
              preEgress, cloudLog>>

memberVars == <<nicAttachment, nicGroups, sgInCloud, defaultSgCached, memPc,
                memArgs, memErr, memCalls, memDeleteCall, preNicGroups>>

adapterVars == <<thPc, thOp, thAcct, snapPending>>

\* The reconciler's state, and the part of it that only the properties read.
syncVars == <<bookmarkCnt, syncedWithCloud, sgIndex, invNics, policy,
              cloudRuleIdx, sgRules, dirtyGroups, syncPc, syncPending,
              snapshot, cloudSeen, rscWithUnknownSGs, syncPass,
              syncQuietStart, syncCalls, bookmarksProcessed, lastEvent,
              bookmarkRet, bookmarkSyncs, faults>>

\* One cloud resource's tracker and what its status is computed from.
trackerVars == <<trackerIndexed, dirty, appliedToSGs, prevAppliedToSGs,
                 sgStatus, networkPolicies, vmNamespaces, vmPolicyIndex,
                 trkOp>>

\* The CloudProviderAccount reconciler and the pollers.
accountVars == <<accountProviderType, accPollers, pollChans, pendingSyncCount,
                 cpaSynced, initialized, acctOp>>

\* The default security group cache seen access by access.
cacheVars == <<cacheAccess, umPc, nicWorker, cacheLog>>

\* The rule description last generated or extracted.
descVars == <<descOp>>

\* The VM inventory store and the last build of it.
inventoryVars == <<vmStore, vmOp>>

\* What became of the accounts that Start listed.
startVars == <<cpaListed, cpaOutcome>>

\* One call of processNetworkInterfaceModifyConcurrently and its goroutines.
modifyVars == <<networkInterfacesToModify, modPc, modWorker, wg, chClosed, modErr>>

vars == <<mutex, ruleVars, memberVars, adapterVars, syncVars, trackerVars,
          accountVars, cacheVars,
    descVars,
    inventoryVars,
    startVars,
    modifyVars>>

\* What the rule update leaves alone, and what the member update and the
\* delete leave alone.
notRules == <<memberVars, adapterVars, syncVars, trackerVars, accountVars,
              cacheVars,
    descVars,
    inventoryVars,
    startVars,
    modifyVars>>

notMembers == <<ruleVars, adapterVars, syncVars, trackerVars, accountVars,
                cacheVars,
    descVars,
    inventoryVars,
    startVars,
    modifyVars>>

notAdapter == <<ruleVars, memberVars, syncVars, trackerVars, accountVars,
                cacheVars,
    descVars,
    inventoryVars,
    startVars,
    modifyVars>>

\* What the reconciler's steps leave alone; the cloud's groups they change
\* through the adapter.
notSync == <<mutex, ruleVars, adapterVars, nicAttachment, memPc, memArgs, memErr,
             memCalls, memDeleteCall, preNicGroups, trackerVars, accountVars,
             cacheVars,
    descVars,
    inventoryVars,
    startVars,
    modifyVars>>

\* What the tracker's operations and the sweep leave alone.
notTracker == <<mutex, ruleVars, memberVars, adapterVars, syncVars,
                accountVars, cacheVars,
    descVars,
    inventoryVars,
    startVars,
    modifyVars>>

\* What a CloudProviderAccount reconcile and a poller leave alone.
notAccount == <<mutex, ruleVars, memberVars, adapterVars, syncVars,
                trackerVars, cacheVars,
    descVars,
    inventoryVars,
    startVars,
    modifyVars>>

\* What a step of the member update seen access by access leaves alone.
notCache == <<ruleVars, nicAttachment, nicGroups, sgInCloud, memPc, memArgs,
              memErr, memCalls, memDeleteCall, preNicGroups, adapterVars,
              syncVars, trackerVars, accountVars,
    descVars,
    inventoryVars,
    startVars,
    modifyVars>>

\* What generating and extracting a rule description leave alone.
notDesc == <<mutex, ruleVars, memberVars, adapterVars, syncVars,
    trackerVars, accountVars, cacheVars,
    inventoryVars,
    startVars,
    modifyVars>>

\* What a build of the VM cache leaves alone.
notInventory == <<mutex, ruleVars, memberVars, adapterVars, syncVars,
    trackerVars, accountVars, cacheVars, descVars,
    startVars,
    modifyVars>>

\* What Start and the reconciles that follow it leave alone.
notStartup == <<mutex, ruleVars, memberVars, adapterVars, syncVars,
                trackerVars, cacheVars, descVars, inventoryVars,
    modifyVars>>

\* What the concurrent modify of the network interfaces leaves alone.
notModify == <<mutex, ruleVars, memberVars, adapterVars, syncVars,
    trackerVars, accountVars, cacheVars, descVars, inventoryVars,
    startVars>>

\* The four lists built by the type switch at the top of the function.
addIRule == {r \in addRules : r.dir = "ingress"}
rmIRule  == {r \in rmRules : r.dir = "ingress"}
addERule == {r \in addRules : r.dir = "egress"}
rmERule  == {r \in rmRules : r.dir = "egress"}

(***************************************************************************)
(* realizeIngressIPPermissions / realizeEgressIPPermissions.               *)
(* No permission built: no call, nil.  A description that cannot be        *)
(* generated: error before any call.  Otherwise one revoke (isDelete) or   *)
(* authorize call, which the cloud accepts or rejects as a whole.          *)
(***************************************************************************)
RealizeOutcomes(rules) ==
    IF \E r \in rules : ~DescriptionOk(r)
    THEN {[called |-> FALSE, err |-> TRUE]}
    ELSE IF rules = {}
    THEN {[called |-> FALSE, err |-> FALSE]}
    ELSE {[called |-> TRUE, err |-> FALSE], [called |-> TRUE, err |-> TRUE]}

CloudOp(isDelete) == IF isDelete THEN "revoke" ELSE "authorize"

\* The cloud's rule set after an accepted call.
CloudApply(set, rules, isDelete) ==
    IF isDelete THEN set \ {r.id : r \in rules}
    ELSE set \cup {r.id : r \in rules}

\* The cloud as the calls see it: the log of calls and the two rule sets.
CloudNow == [log |-> cloudLog, ingress |-> sgIngress, egress |-> sgEgress]

\* One realize call on direction dir with outcome o, issued from the
\* forward path or from the deferred rollback (phase), on cloud c.
Realize(c, dir, rules, isDelete, phase, o) ==
    [log |-> IF o.called
             THEN Append(c.log, [op |-> CloudOp(isDelete), dir |-> dir,
                                 rules |-> rules, ok |-> ~o.err,
                                 phase |-> phase])
             ELSE c.log,
     ingress |-> IF o.called /\ ~o.err /\ dir = "ingress"
                 THEN CloudApply(c.ingress, rules, isDelete) ELSE c.ingress,
     egress |-> IF o.called /\ ~o.err /\ dir = "egress"
                THEN CloudApply(c.egress, rules, isDelete) ELSE c.egress]

SetCloud(c) ==
    /\ cloudLog' = c.log
    /\ sgIngress' = c.ingress
    /\ sgEgress' = c.egress

(***************************************************************************)
(* awsCloud.UpdateSecurityGroupRules.                                      *)
(***************************************************************************)
\* The adapter takes any two lists; it does not check that they are
\* disjoint.
RuleUpdateInputs == [add : SUBSET CloudRules, rm : SUBSET CloudRules]

\* Entry: the mutex is taken, the lists are split, the rollback flags are
\* declared false.
UpdateRulesCall ==
    /\ ruPc = "idle"
    /\ mutex = "free"
    /\ mutex' = "held"
    /\ \E in \in RuleUpdateInputs :
          /\ addRules' = in.add
          /\ rmRules' = in.rm
    /\ rollbackRmIngress' = FALSE
    /\ rollbackAddIngress' = FALSE
    /\ rollbackRmEgress' = FALSE
    /\ ruErr' = "nil"
    /\ preIngress' = sgIngress
    /\ preEgress' = sgEgress
    /\ cloudLog' = <<>>
    /\ ruPc' = "lookup"
    /\ UNCHANGED <<sgIngress, sgEgress>>
    /\ UNCHANGED notRules

\* Account, service configuration and security-group lookup: any of them
\* may fail, and then the function returns before the first rule call.
UpdateRulesLookup ==
    /\ ruPc = "lookup"
    /\ \E failed \in BOOLEAN :
          /\ ruErr' = IF failed THEN "lookup" ELSE "nil"
          /\ ruPc' = IF failed THEN "defer" ELSE "step0"
    /\ UNCHANGED <<mutex, addRules, rmRules, rollbackRmIngress,
                   rollbackAddIngress, rollbackRmEgress, sgIngress, sgEgress,
                   preIngress, preEgress, cloudLog>>
    /\ UNCHANGED notRules

\* The four forward steps in the order of the source text.
StepDir(k) == IF k \in {0, 1} THEN "ingress" ELSE "egress"

StepIsDelete(k) == k \in {0, 2}

StepRules(k) ==
    CASE k = 0 -> rmIRule
      [] k = 1 -> addIRule
      [] k = 2 -> rmERule
      [] k = 3 -> addERule

StepPc(k) ==
    CASE k = 0 -> "step0"
      [] k = 1 -> "step1"
      [] k = 2 -> "step2"
      [] k = 3 -> "step3"

\* A plausible slip: an error of a step does not end the forward path.
NextPcIgnoringError(k, err) == IF k = 3 THEN "defer" ELSE StepPc(k + 1)

\* Where control goes after step k: the return (running the deferred
\* function) on an error or after the last step, the next step otherwise.
NextPcAfter(k, err) ==
    IF err \/ k = 3 THEN "defer" ELSE StepPc(k + 1)

\* A plausible slip: a failure of the egress revoke forgets the ingress
\* authorize that has to be undone.
FlagsOnFailureForgetful(k) ==
    [rmIngress |-> k >= 1, addIngress |-> k >= 3, rmEgress |-> k >= 3]

\* The rollback flags set before the return when step k failed.
FlagsOnFailure(k) ==
    [rmIngress |-> k >= 1, addIngress |-> k >= 2, rmEgress |-> k >= 3]

RealizeStep(k) ==
    /\ ruPc = StepPc(k)
    /\ \E o \in RealizeOutcomes(StepRules(k)) :
          /\ SetCloud(Realize(CloudNow, StepDir(k), StepRules(k),
                              StepIsDelete(k), "forward", o))
          /\ ruErr' = IF o.err THEN StepPc(k) ELSE "nil"
          /\ rollbackRmIngress' = (o.err /\ FlagsOnFailure(k).rmIngress)
          /\ rollbackAddIngress' = (o.err /\ FlagsOnFailure(k).addIngress)
          /\ rollbackRmEgress' = (o.err /\ FlagsOnFailure(k).rmEgress)
          /\ ruPc' = NextPcAfter(k, o.err)
    /\ UNCHANGED <<mutex, addRules, rmRules, preIngress, preEgress>>
    /\ UNCHANGED notRules

RealizeRmIngress == RealizeStep(0)

RealizeAddIngress == RealizeStep(1)

RealizeRmEgress == RealizeStep(2)

RealizeAddEgress == RealizeStep(3)

\* A plausible slip: the undo of the ingress authorize authorizes again.
RollbackCallsWrongInverse ==
    <<[flag |-> rollbackRmIngress, dir |-> "ingress", rules |-> rmIRule,
       isDelete |-> FALSE],
      [flag |-> rollbackAddIngress, dir |-> "ingress", rules |-> addIRule,
       isDelete |-> FALSE],
      [flag |-> rollbackRmEgress, dir |-> "egress", rules |-> rmERule,
       isDelete |-> FALSE]>>

\* The deferred function: three guarded realize calls in this order, their
\* errors dropped.
RollbackCalls ==
    <<[flag |-> rollbackRmIngress, dir |-> "ingress", rules |-> rmIRule,
       isDelete |-> FALSE],
      [flag |-> rollbackAddIngress, dir |-> "ingress", rules |-> addIRule,
       isDelete |-> TRUE],
      [flag |-> rollbackRmEgress, dir |-> "egress", rules |-> rmERule,
       isDelete |-> FALSE]>>

\* What a guarded rollback call may do: nothing when its flag is unset.
RollbackOutcomes(call) ==
    IF call.flag THEN RealizeOutcomes(call.rules)
    ELSE {[called |-> FALSE, err |-> FALSE]}

\* A plausible slip: a rollback call that fails ends the rollback.
RollbackOneUntilFailure(c, call, o) == IF \E i \in DOMAIN c.log : c.log[i].phase = "rollback" /\ ~c.log[i].ok THEN c ELSE Realize(c, call.dir, call.rules, call.isDelete, "rollback", o)

RollbackOne(c, call, o) ==
    Realize(c, call.dir, call.rules, call.isDelete, "rollback", o)

\* The return: the deferred function runs its three calls, then the
\* deferred mutex.Unlock runs and the caller receives ruErr.
UpdateRulesReturn ==
    /\ ruPc = "defer"
    /\ \E o1 \in RollbackOutcomes(RollbackCalls[1]),
          o2 \in RollbackOutcomes(RollbackCalls[2]),
          o3 \in RollbackOutcomes(RollbackCalls[3]) :
          SetCloud(RollbackOne(RollbackOne(RollbackOne(CloudNow,
                       RollbackCalls[1], o1), RollbackCalls[2], o2),
                       RollbackCalls[3], o3))
    /\ mutex' = "free"
    /\ ruPc' = "returned"
    /\ UNCHANGED <<addRules, rmRules, rollbackRmIngress, rollbackAddIngress,
                   rollbackRmEgress, ruErr, preIngress, preEgress>>
    /\ UNCHANGED notRules

(***************************************************************************)
(* Security groups and network interfaces of one VPC.                      *)
(***************************************************************************)
Nics == 1..NumNics

\* The instance a NIC can be attached to; "none" is a nil Attachment.
Instances == {"vm1"}

\* A cloud security group is named by the prefix of its kind and the
\* controller's group name: "ag" the address-group prefix, "at" the
\* applied-to prefix, "no" a name with neither prefix.
AddressGroupSGs == {[kind |-> "ag", name |-> "a"]}

AppliedToSGs == {[kind |-> "at", name |-> "a"], [kind |-> "at", name |-> "b"]}

ManagedSGs == AddressGroupSGs \cup AppliedToSGs

\* awsVpcDefaultSecurityGroupName, the VPC's own default group.
VpcDefaultSg == [kind |-> "no", name |-> "default"]

ForeignSg == [kind |-> "no", name |-> "foreign"]

CloudSGs == ManagedSGs \cup {VpcDefaultSg, ForeignSg}

\* IsNepheControllerCreatedSG: the address-group prefix is tried first,
\* then the applied-to prefix.
IsNepheControllerCreatedSG(sg) ==
    [name |-> IF sg.kind \in {"ag", "at"} THEN sg.name ELSE "",
     isAddressGroup |-> sg.kind = "ag",
     isAppliedToGroup |-> sg.kind # "ag" /\ sg.kind = "at"]

\* buildEc2SgsToAttachForCaseMemberOnlySgWithNoATSgAttached
BuildEc2SgsToAttach(nepheSgs, otherSgs, vpcDefaultSgID) ==
    nepheSgs \cup otherSgs \cup (IF otherSgs = {} THEN {vpcDefaultSgID} ELSE {})

\* A plausible slip: the last applied-to group is detached without the
\* default group taking its place.
DetachSetNoDefault(nepheSgs, otherSgs, numAppliedTo, group, membershipOnly) ==
    IF membershipOnly /\ numAppliedTo = 0
    THEN BuildEc2SgsToAttach(nepheSgs \ {group}, otherSgs, VpcDefaultSg)
    ELSE nepheSgs \ {group}

\* The set to attach when the group is on the NIC and the NIC is no member.
DetachSet(nepheSgs, otherSgs, numAppliedTo, group, membershipOnly) ==
    IF membershipOnly /\ numAppliedTo = 0
    THEN BuildEc2SgsToAttach(nepheSgs \ {group}, otherSgs, VpcDefaultSg)
    ELSE IF ~membershipOnly /\ numAppliedTo = 1
    THEN (nepheSgs \ {group}) \cup {VpcDefaultSg}
    ELSE nepheSgs \ {group}

\* A plausible slip: the set built for a member NIC leaves the group out.
AttachSetWithoutGroup(nepheSgs, otherSgs, numAppliedTo, group, membershipOnly) ==
    IF membershipOnly /\ numAppliedTo = 0
    THEN BuildEc2SgsToAttach(nepheSgs, otherSgs, VpcDefaultSg)
    ELSE nepheSgs

\* The set to attach when the group is not on the NIC and the NIC is a member.
AttachSet(nepheSgs, otherSgs, numAppliedTo, group, membershipOnly) ==
    IF membershipOnly /\ numAppliedTo = 0
    THEN BuildEc2SgsToAttach(nepheSgs \cup {group}, otherSgs, VpcDefaultSg)
    ELSE nepheSgs \cup {group}

\* One iteration of the loop over the VPC's network interfaces: whether
\* the NIC with these groups and this attachment is to be modified, and
\* the set to attach.
NicPlan(groups, attachment, nic, group, memberVMs, memberNICs) ==
    LET membershipOnly == group.kind = "ag"
        nepheSgs == {g \in groups :
                        IsNepheControllerCreatedSG(g).isAddressGroup
                        \/ IsNepheControllerCreatedSG(g).isAppliedToGroup}
        otherSgs == groups \ nepheSgs
        numAppliedTo == Cardinality({g \in groups :
                           IsNepheControllerCreatedSG(g).isAppliedToGroup})
        isGroupSgAttached == group \in nepheSgs
        isMember == attachment \in memberVMs \/ nic \in memberNICs
    IN  IF attachment = "none"
        THEN [modify |-> FALSE, groups |-> {}]
        ELSE IF isGroupSgAttached /\ ~isMember
        THEN [modify |-> TRUE,
              groups |-> DetachSet(nepheSgs, otherSgs, numAppliedTo, group,
                                   membershipOnly)]
        ELSE IF ~isGroupSgAttached /\ isMember
        THEN [modify |-> TRUE,
              groups |-> AttachSet(nepheSgs, otherSgs, numAppliedTo, group,
                                   membershipOnly)]
        ELSE [modify |-> FALSE, groups |-> {}]

\* networkInterfacesToModify on a VPC whose NICs carry ng and are attached
\* as na: NIC -> set to attach.
NetworkInterfacesToModify(ng, na, group, memberVMs, memberNICs) ==
    LET toModify == {n \in Nics :
                       NicPlan(ng[n], na[n], n, group, memberVMs,
                               memberNICs).modify}
    IN  [n \in toModify |->
            NicPlan(ng[n], na[n], n, group, memberVMs, memberNICs).groups]

\* updateNetworkInterfaceSecurityGroups: an empty set is replaced by the
\* default group.
GroupsToWrite(sgIDSet) == IF sgIDSet = {} THEN {VpcDefaultSg} ELSE sgIDSet

(***************************************************************************)
(* awsCloud.UpdateSecurityGroupMembers and awsCloud.DeleteSecurityGroup.   *)
(* The calls run under the mutex from entry to return, so each is one      *)
(* step.  The network-interface modify calls of one call are independent   *)
(* of each other: each is accepted or rejected on its own.                 *)
(***************************************************************************)
NoCalls == [n \in {} |-> {}]

\* What can go wrong before the modify calls: the account, service or
\* group lookup, the describe of the VPC's network interfaces, the lookup
\* of the default group.
MemberFaults == {"none", "lookup", "describeNics", "defaultSg"}

\* A plausible slip: the delete of a group the cloud does not have is an
\* error, as the member update of such a group is.
NotFoundErrAlways(op) == "notFound"

\* The group is looked up by name and the cloud has none of that name: the
\* member update returns an error, the delete returns the nil error of the
\* lookup.
NotFoundErr(op) == IF op = "update" THEN "notFound" ELSE "nil"

\* What the call op on group with the given members does to a VPC whose
\* NICs carry ng and are attached as na, in which the managed groups of
\* exists exist and the default group is cached or not: under fault, with
\* the modify calls of the NICs in failing rejected and the delete call
\* rejected when deleteFails.
MemberResult(ng, na, exists, cached, op, group, vms, nics, fault, failing, deleteFails) ==
    LET found == group \in exists
        enters == fault # "lookup" /\ found
        describeErr == enters /\ fault = "describeNics"
        defaultErr == enters /\ fault = "defaultSg" /\ ~cached
        plan == IF enters /\ ~describeErr /\ ~defaultErr
                THEN NetworkInterfacesToModify(ng, na, group, vms, nics)
                ELSE NoCalls
        rejected == failing \cap DOMAIN plan
        written == [n \in Nics |->
                      IF n \in DOMAIN plan /\ n \notin rejected
                      THEN GroupsToWrite(plan[n]) ELSE ng[n]]
        detachErr == describeErr \/ defaultErr \/ rejected # {}
        deleteIssued == op = "delete" /\ enters /\ ~detachErr
        \* The cloud refuses to delete a group that a NIC still carries.
        deleteOk == deleteIssued /\ ~deleteFails
                    /\ \A n \in Nics : group \notin written[n]
    IN  [calls |-> [n \in DOMAIN plan |->
                      [groups |-> GroupsToWrite(plan[n]),
                       ok |-> n \notin rejected]],
         nicGroups |-> written,
         cached |-> (cached \/ (enters /\ ~describeErr /\ ~defaultErr)),
         deleteCall |-> IF ~deleteIssued THEN "none"
                        ELSE IF deleteOk THEN "ok" ELSE "failed",
         sgInCloud |-> IF deleteOk THEN exists \ {group} ELSE exists,
         err |-> IF fault = "lookup" THEN "lookup"
                 ELSE IF ~found
                 THEN NotFoundErr(op)
                 ELSE IF describeErr THEN "describeNics"
                 ELSE IF defaultErr THEN "defaultSg"
                 ELSE IF rejected # {} THEN "modify"
                 ELSE IF deleteIssued /\ ~deleteOk THEN "delete"
                 ELSE "nil"]

\* The call made on the VPC as it is now.
MemberOp(op, group, memberVMs, memberNICs, fault, failing, deleteFails) ==
    \E res \in {MemberResult(nicGroups, nicAttachment, sgInCloud,
                             defaultSgCached, op, group, memberVMs,
                             memberNICs, fault, failing, deleteFails)} :
        /\ memArgs' = [op |-> op, group |-> group, memberVMs |-> memberVMs,
                       memberNICs |-> memberNICs]
        /\ memCalls' = res.calls
        /\ nicGroups' = res.nicGroups
        /\ preNicGroups' = nicGroups
        /\ defaultSgCached' = res.cached
        /\ memDeleteCall' = res.deleteCall
        /\ sgInCloud' = res.sgInCloud
        /\ memErr' = res.err
        /\ memPc' = IF memPc = "idle" THEN "returned" ELSE "repeated"
        /\ UNCHANGED <<mutex, nicAttachment>>
        /\ UNCHANGED notMembers

UpdateSecurityGroupMembers ==
    /\ memPc = "idle"
    /\ mutex = "free"
    /\ \E group \in ManagedSGs, memberVMs \in SUBSET Instances,
          memberNICs \in SUBSET Nics, fault \in MemberFaults,
          failing \in SUBSET Nics :
          /\ fault # "none" => failing = {}
          /\ MemberOp("update", group, memberVMs, memberNICs, fault, failing,
                      FALSE)

\* The caller may repeat a delete that has returned, on the same group.
DeleteSecurityGroup ==
    /\ memPc \in {"idle", "returned"}
    /\ mutex = "free"
    /\ \E group \in ManagedSGs, fault \in MemberFaults,
          failing \in SUBSET Nics, deleteFails \in BOOLEAN :
          /\ memPc = "returned" =>
                memArgs.op = "delete" /\ memArgs.group = group
          /\ fault # "none" => (failing = {} /\ ~deleteFails)
          /\ failing # {} => ~deleteFails
          /\ MemberOp("delete", group, {}, {}, fault, failing, deleteFails)

(***************************************************************************)
(* The reconciler's data.                                                  *)
(***************************************************************************)
\* A member list: CloudResources of type VM or of type NIC.  The code
\* reads the type of a list off its first element; the lists here hold
\* one type.
NoMembers == [vms |-> {}, nics |-> {}]

MemberLists ==
    {[vms |-> v, nics |-> {}] : v \in SUBSET Instances}
    \cup {[vms |-> {}, nics |-> n] : n \in SUBSET Nics}

\* An entry of addrSGIndexer or appliedToSGIndexer; hasMembers and
\* ruleReady are fields of appliedTo entries.
AbsentEntry ==
    [present |-> FALSE, state |-> "Init", members |-> NoMembers,
     deletePending |-> FALSE, hasMembers |-> FALSE, ruleReady |-> FALSE]

SgEntry(state, members, deletePending) ==
    [present |-> TRUE, state |-> state, members |-> members,
     deletePending |-> deletePending, hasMembers |-> FALSE,
     ruleReady |-> FALSE]

\* The rules a policy or a cloud group can hold: direction, protocol and
\* port, peer address block.
SyncRules ==
    {[dir |-> "ingress", port |-> "protocol=6,port=80", peer |-> "10.0.0.0/8"],
     [dir |-> "egress", port |-> "protocol=6,port=80", peer |-> "10.0.0.0/8"]}

\* A CloudRule of the index: its rule, and whether its NetworkPolicy field
\* is set.  The hash is over the rule and the appliedTo group, so a group
\* has at most one entry per rule.
RuleEntries == [rule : SyncRules, np : BOOLEAN]

RuleIndexes ==
    {idx \in SUBSET RuleEntries :
        \A e1, e2 \in idx : e1.rule = e2.rule => e1 = e2}

NoPolicy == [exists |-> FALSE, rules |-> {}]

NoGroup == [kind |-> "no", name |-> ""]

EmptyView == [g \in {} |-> {}]

\* Every event type but Bookmark is treated alike.
WatchEvents == {"Modified", "Bookmark"}

\* The reconciler after construction, with nothing in its indexers.
FreshReconciler ==
    /\ bookmarkCnt = 0
    /\ syncedWithCloud = FALSE
    /\ dirtyGroups = {}
    /\ syncPc = "idle"
    /\ syncPending = {}
    /\ snapshot = EmptyView
    /\ cloudSeen = {}
    /\ rscWithUnknownSGs = {}
    /\ syncPass = 0
    /\ syncQuietStart = FALSE
    /\ syncCalls = {}
    /\ bookmarksProcessed = 0
    /\ lastEvent = "none"
    /\ bookmarkRet = "none"
    /\ bookmarkSyncs = 0
    /\ faults = 0

IdleSync ==
    /\ FreshReconciler
    /\ sgIndex = [g \in ManagedSGs |-> AbsentEntry]
    /\ invNics = [v \in Instances |-> {}]
    /\ policy = [g \in AppliedToSGs |-> NoPolicy]
    /\ cloudRuleIdx = [g \in AppliedToSGs |-> {}]
    /\ sgRules = [g \in AppliedToSGs |-> {}]

\* A map with no key.
NoEntries == [k \in {} |-> ""]

\* No tracker, no policy, no VM of the resource in the inventory.
IdleTracker ==
    /\ trackerIndexed = FALSE
    /\ dirty = "unset"
    /\ appliedToSGs = {}
    /\ prevAppliedToSGs = {}
    /\ sgStatus = [g \in AppliedToSGs |-> "nil"]
    /\ networkPolicies = {}
    /\ vmNamespaces = {}
    /\ vmPolicyIndex = NoEntries
    /\ trkOp = [op |-> "none"]

Callers == 1..NumCallers

Accounts == 1..NumAccounts

\* No caller inside the adapter.
IdleAdapter ==
    /\ thPc = [t \in Callers |-> "idle"]
    /\ thOp = [t \in Callers |-> "none"]
    /\ thAcct = [t \in Callers |-> 1]
    /\ snapPending = [t \in Callers |-> {}]

\* No account reconciled yet, no poller, Start done with no account listed.
IdleAccounts ==
    /\ accountProviderType = [a \in Accounts |-> "none"]
    /\ accPollers = [a \in Accounts |-> 0]
    /\ pollChans = <<>>
    /\ pendingSyncCount = 0
    /\ cpaSynced = TRUE
    /\ initialized = TRUE
    /\ acctOp = [op |-> "none"]

\* No caller inside the member update, no access of the cache under way.
IdleCache ==
    /\ cacheAccess = {}
    /\ umPc = [t \in Callers |-> "idle"]
    /\ nicWorker = [t \in Callers |-> <<>>]
    /\ cacheLog = {}

\* No rule description generated or extracted yet.
IdleDesc ==
    /\ descOp = [op |-> "none"]

\* The names of the VMs the cloud has; every account and every VM is in one
\* namespace, so the name stands for the store's key "namespace/name".
VmNames == {"vm1", "vm2"}

\* No object under a key of the store, no entry under a key of a map.
NoVm == [present |-> FALSE]

\* No VM cached, no build made.
IdleInventory ==
    /\ vmStore = [n \in VmNames |-> NoVm]
    /\ vmOp = [op |-> "none"]

\* No account listed, no reconcile ended.
IdleStart ==
    /\ cpaListed = {}
    /\ cpaOutcome = [a \in Accounts |-> "none"]

\* The network interfaces a member update can have to modify.
ModifyNics == 1..NumModifyNics

\* A goroutine that was not started.
NoWorker == [pc |-> "none", calls |-> 0, failed |-> FALSE]

\* No concurrent modify called.
IdleModify ==
    /\ networkInterfacesToModify = {}
    /\ modPc = "idle"
    /\ modWorker = [n \in ModifyNics |-> NoWorker]
    /\ wg = 0
    /\ chClosed = FALSE
    /\ modErr = {}

\* No rule update in progress.
IdleRules ==
    /\ ruPc = "idle"
    /\ addRules = {}
    /\ rmRules = {}
    /\ rollbackRmIngress = FALSE
    /\ rollbackAddIngress = FALSE
    /\ rollbackRmEgress = FALSE
    /\ ruErr = "nil"
    /\ sgIngress = {}
    /\ sgEgress = {}
    /\ preIngress = {}
    /\ preEgress = {}
    /\ cloudLog = <<>>

\* No member update or delete made yet.
NoMemberCall ==
    /\ memPc = "idle"
    /\ memArgs = [op |-> "none"]
    /\ memErr = "nil"
    /\ memCalls = NoCalls
    /\ memDeleteCall = "none"
    /\ preNicGroups = nicGroups

\* A VPC with every NIC on the default group and no managed group.
IdleMembers ==
    /\ nicAttachment = [n \in Nics |-> "none"]
    /\ nicGroups = [n \in Nics |-> {VpcDefaultSg}]
    /\ sgInCloud = {}
    /\ defaultSgCached = FALSE
    /\ NoMemberCall

\* Any VPC: a NIC carries at least one group, and the managed groups it
\* carries exist.
InitMembers ==
    /\ mutex = "free"
    /\ IdleModify
    /\ IdleStart
    /\ IdleInventory
    /\ IdleDesc
    /\ IdleRules
    /\ nicAttachment \in [Nics -> Instances \cup {"none"}]
    /\ nicGroups \in [Nics -> (SUBSET CloudSGs) \ {{}}]
    /\ sgInCloud \in SUBSET ManagedSGs
    /\ \A n \in Nics : nicGroups[n] \cap ManagedSGs \subseteq sgInCloud
    /\ defaultSgCached \in BOOLEAN
    /\ NoMemberCall
    /\ IdleAdapter
    /\ IdleAccounts
    /\ IdleCache
    /\ IdleSync
    /\ IdleTracker

NextMembers ==
    \/ UpdateSecurityGroupMembers
    \/ DeleteSecurityGroup

SpecMembers == InitMembers /\ [][NextMembers]_vars

(***************************************************************************)
(* The adapter's entry points and the mutex.  CreateSecurityGroup,         *)
(* UpdateSecurityGroupRules, UpdateSecurityGroupMembers and                *)
(* DeleteSecurityGroup lock the mutex on entry and unlock it by a deferred *)
(* call; GetEnforcedSecurity starts one goroutine per account and takes no *)
(* lock.                                                                   *)
(***************************************************************************)
LockedOps == {"CreateSecurityGroup", "UpdateSecurityGroupRules",
              "UpdateSecurityGroupMembers", "DeleteSecurityGroup"}

\* A caller enters one of the four locking operations for an account and
\* reaches mutex.Lock().
AdapterEnter(t) ==
    /\ thPc[t] = "idle"
    /\ \E op \in LockedOps, a \in Accounts :
          /\ thOp' = [thOp EXCEPT ![t] = op]
          /\ thAcct' = [thAcct EXCEPT ![t] = a]
    /\ thPc' = [thPc EXCEPT ![t] = "lock"]
    /\ UNCHANGED <<mutex, snapPending>>
    /\ UNCHANGED notAdapter

\* mutex.Lock() returns: the body of the operation runs from here.
LockAcquired(t) ==
    /\ thPc[t] = "lock"
    /\ mutex = "free"
    /\ mutex' = "held"
    /\ thPc' = [thPc EXCEPT ![t] = "running"]
    /\ UNCHANGED <<thOp, thAcct, snapPending>>
    /\ UNCHANGED notAdapter

\* The operation returns and the deferred mutex.Unlock() runs.
AdapterReturn(t) ==
    /\ thPc[t] = "running"
    /\ mutex' = "free"
    /\ thPc' = [thPc EXCEPT ![t] = "idle"]
    /\ thOp' = [thOp EXCEPT ![t] = "none"]
    /\ UNCHANGED <<thAcct, snapPending>>
    /\ UNCHANGED notAdapter

\* GetEnforcedSecurity: one goroutine per account is started; each reads
\* its account's cloud view.
GetEnforcedSecurity(t) ==
    /\ thPc[t] = "idle"
    /\ thPc' = [thPc EXCEPT ![t] = "snapshot"]
    /\ thOp' = [thOp EXCEPT ![t] = "GetEnforcedSecurity"]
    /\ snapPending' = [snapPending EXCEPT ![t] = Accounts]
    /\ UNCHANGED <<mutex, thAcct>>
    /\ UNCHANGED notAdapter

\* The goroutine of account a sends its view (or skips the account) and
\* ends.
CloudViewSent(t, a) ==
    /\ thPc[t] = "snapshot"
    /\ a \in snapPending[t]
    /\ snapPending' = [snapPending EXCEPT ![t] = @ \ {a}]
    /\ UNCHANGED <<mutex, thPc, thOp, thAcct>>
    /\ UNCHANGED notAdapter

\* The channel is closed once every goroutine has ended; the views are
\* returned.
GetEnforcedSecurityReturn(t) ==
    /\ thPc[t] = "snapshot"
    /\ snapPending[t] = {}
    /\ thPc' = [thPc EXCEPT ![t] = "idle"]
    /\ thOp' = [thOp EXCEPT ![t] = "none"]
    /\ UNCHANGED <<mutex, thAcct, snapPending>>
    /\ UNCHANGED notAdapter

InitAdapter ==
    /\ mutex = "free"
    /\ IdleModify
    /\ IdleStart
    /\ IdleInventory
    /\ IdleDesc
    /\ IdleRules
    /\ IdleMembers
    /\ IdleAdapter
    /\ IdleAccounts
    /\ IdleCache
    /\ IdleSync
    /\ IdleTracker

NextAdapter ==
    \E t \in Callers :
       \/ AdapterEnter(t)
       \/ LockAcquired(t)
       \/ AdapterReturn(t)
       \/ GetEnforcedSecurity(t)
       \/ \E a \in Accounts : CloudViewSent(t, a)
       \/ GetEnforcedSecurityReturn(t)

SpecAdapter == InitAdapter /\ [][NextAdapter]_vars

InitRules ==
    /\ mutex = "free"
    /\ IdleModify
    /\ IdleStart
    /\ IdleInventory
    /\ IdleDesc
    /\ ruPc = "idle"
    /\ addRules = {}
    /\ rmRules = {}
    /\ rollbackRmIngress = FALSE
    /\ rollbackAddIngress = FALSE
    /\ rollbackRmEgress = FALSE
    /\ ruErr = "nil"
    /\ sgIngress \in SUBSET GoodRuleIds
    /\ sgEgress \in SUBSET GoodRuleIds
    /\ preIngress = sgIngress
    /\ preEgress = sgEgress
    /\ cloudLog = <<>>
    /\ IdleMembers
    /\ IdleAdapter
    /\ IdleAccounts
    /\ IdleCache
    /\ IdleSync
    /\ IdleTracker

NextRules ==
    \/ UpdateRulesCall
    \/ UpdateRulesLookup
    \/ RealizeRmIngress
    \/ RealizeAddIngress
    \/ RealizeRmEgress
    \/ RealizeAddEgress
    \/ UpdateRulesReturn

SpecRules == InitRules /\ [][NextRules]_vars

(***************************************************************************)
(* Synchronisation with the cloud: what the reconciler reads and calls.    *)
(***************************************************************************)
\* The VPC as the adapter's calls transform it.
Vpc ==
    [nicGroups |-> nicGroups, sgInCloud |-> sgInCloud,
     cached |-> defaultSgCached, sgRules |-> sgRules]

SetVpc(c) ==
    /\ nicGroups' = c.nicGroups
    /\ sgInCloud' = c.sgInCloud
    /\ defaultSgCached' = c.cached
    /\ sgRules' = c.sgRules

\* getNepheControllerManagedSecurityGroupsCloudView: one content per
\* managed group of the VPC.  Its members are the NICs that carry it,
\* whether or not they are attached to an instance; those of them that
\* also carry a group the controller did not create are listed apart.
CloudView ==
    [g \in sgInCloud |->
        [members |-> {n \in Nics : g \in nicGroups[n]},
         membersWithOtherSGAttached |->
             {n \in Nics : /\ g \in nicGroups[n]
                           /\ nicGroups[n] \ ManagedSGs # {}},
         rules |-> IF g \in AppliedToSGs THEN sgRules[g] ELSE {}]]

\* The content sync hands to a group: nil for a group the cloud did not
\* report.
NoContent ==
    [reported |-> FALSE, members |-> {}, membersWithOtherSGAttached |-> {},
     rules |-> {}]

ContentOf(g) ==
    IF g \in cloudSeen
    THEN [reported |-> TRUE, members |-> snapshot[g].members,
          membersWithOtherSGAttached |->
              snapshot[g].membersWithOtherSGAttached,
          rules |-> snapshot[g].rules]
    ELSE NoContent

\* getNICsOfCloudResources: nothing of an empty list, a NIC list as it is,
\* and of a VM list the NICs the inventory knows of its VMs.
GetNICsOfCloudResources(members) ==
    IF members = NoMembers THEN {}
    ELSE IF members.nics # {} THEN members.nics
    ELSE UNION {invNics[v] : v \in members.vms}

\* compareCloudResources: the same resources on both sides.
CompareCloudResources(cached, syncMembers) ==
    cached.vms = {} /\ cached.nics = syncMembers

\* A plausible slip: the cached members are compared as they are.
MembersInSyncUnexpanded(entry, content) ==
    CompareCloudResources(entry.members, content.members)

\* syncImpl's comparison: the cached members are turned into NICs when the
\* cloud reports at least one member.
MembersInSync(entry, content) ==
    LET cached == IF content.members # {}
                  THEN [vms |-> {},
                        nics |-> GetNICsOfCloudResources(entry.members)]
                  ELSE entry.members
    IN  CompareCloudResources(cached, content.members)

\* The adapter's CreateSecurityGroup: the group exists afterwards unless
\* the call failed.
CreateSecurityGroup(c, g, fail) ==
    IF fail THEN c ELSE [c EXCEPT !.sgInCloud = @ \cup {g}]

\* The VPC after a member update or a delete that returned res, and the
\* call as the reconciler saw it; a deleted group's rules are gone with it.
VpcAfter(c, op, res) ==
    [cloud |-> [nicGroups |-> res.nicGroups,
                sgInCloud |-> res.sgInCloud,
                cached |-> res.cached,
                sgRules |-> [a \in AppliedToSGs |->
                                IF a \in res.sgInCloud THEN c.sgRules[a]
                                ELSE {}]],
     calls |-> {[op |-> IF op = "update" THEN "members" ELSE op,
                 ok |-> res.err = "nil"]}]

\* The adapter's member update and delete, on the VPC c.
MemberCall(c, op, g, members, fail, deleteFails) ==
    VpcAfter(c, op,
             MemberResult(c.nicGroups, nicAttachment, c.sgInCloud, c.cached,
                          op, g, members.vms, members.nics,
                          IF fail THEN "describeNics" ELSE "none", {},
                          deleteFails))

\* The adapter's UpdateSecurityGroupRules: the description of every rule,
\* added or removed, is generated from its NetworkPolicy before any call,
\* and a failed update leaves the rules as they were.
UpdateSecurityGroupRules(c, g, add, rm, fail) ==
    LET ok == /\ g \in c.sgInCloud
              /\ \A e \in rm : e.np
              /\ ~fail
    IN  [cloud |-> IF ok
                   THEN [c EXCEPT !.sgRules[g] =
                            (@ \ {e.rule : e \in rm}) \cup add]
                   ELSE c,
         ok |-> ok]

\* The calls a step made on the adapter: the operation and whether it
\* succeeded.
NoCall == {}

\* addImpl, as the state machine has it: Init fires the create; success
\* leaves the group Created, failure leaves it in Init with its members.
AddImpl(entry, g, c, fail) ==
    [entry |-> [entry EXCEPT !.state = IF fail THEN "Init" ELSE "Created"],
     cloud |-> CreateSecurityGroup(c, g, fail),
     calls |-> {[op |-> "create", ok |-> ~fail]}]

\* updateImpl with nothing added or removed, as the state machine has it:
\* a Created group fires the member update with the members it holds and
\* stays Created; a group in another state keeps its members for later.
UpdateImpl(entry, g, c, fail) ==
    IF entry.state # "Created"
    THEN [entry |-> entry, cloud |-> c, calls |-> NoCall]
    ELSE [entry |-> entry]
         @@ MemberCall(c, "update", g, entry.members, fail, FALSE)

\* The result of a method of the group, with the method's name added to
\* the calls it made: the log shows that sync invoked it.
Invoke(method, res) ==
    [res EXCEPT !.calls = @ \cup {[op |-> method, ok |-> TRUE]}]

\* syncImpl: a group the cloud did not report goes back to Init and is
\* added; a reported group is Created, and is updated when its members
\* differ from the reported ones.
SyncImpl(entry, g, c, content, fail) ==
    IF ~content.reported
    THEN [same |-> FALSE]
         @@ Invoke("addImpl",
                   AddImpl([entry EXCEPT !.state = "Init"], g, c, fail))
    ELSE IF MembersInSync(entry, content)
    THEN [same |-> TRUE, entry |-> [entry EXCEPT !.state = "Created"],
          cloud |-> c, calls |-> NoCall]
    ELSE [same |-> FALSE]
         @@ Invoke("updateImpl",
                   UpdateImpl([entry EXCEPT !.state = "Created"], g, c, fail))

\* countIngressRuleItems and countEgressRuleItems: the items of a rule are
\* its protocol and port, and each of its peers; the direction is no part
\* of an item.
RuleItems(rule) == {rule.port, rule.peer}

\* The histogram after the policies' rules were added and the cloud's
\* subtracted.
ItemCount(item, npRules, cloudRules) ==
    Cardinality({r \in npRules : item \in RuleItems(r)})
    - Cardinality({r \in cloudRules : item \in RuleItems(r)})

\* A plausible slip: the histogram is never looked at.
ItemMismatchNever(npRules, cloudRules) == FALSE

ItemMismatch(npRules, cloudRules) ==
    \E item \in UNION {RuleItems(r) : r \in npRules \cup cloudRules} :
        ItemCount(item, npRules, cloudRules) # 0

\* A plausible slip: the entries of rules the cloud no longer has are kept.
IndexAfterSyncAddsOnly(idx, cloudRules) ==
    idx \cup {[rule |-> r, np |-> FALSE] :
                 r \in cloudRules \ {e.rule : e \in idx}}

\* checkAndUpdateIndexer over the reported rules, then the removal of the
\* entries whose rule the cloud no longer has: a reported rule without an
\* entry gets one that names no NetworkPolicy.
IndexAfterSync(idx, cloudRules) ==
    {e \in idx : e.rule \in cloudRules}
    \cup {[rule |-> r, np |-> FALSE] :
             r \in cloudRules \ {e.rule : e \in idx}}

IndexerUpdate(idx, cloudRules) == {e.rule : e \in idx} # cloudRules

\* updateAllRules: the policies' rules against the index; what the index
\* lacks is added and what the policies lack is removed, by one rule update
\* on a Created group.
UpdateAllRules(entry, g, c, idx, npRules, fail) ==
    LET add == npRules \ {e.rule : e \in idx}
        rm == {e \in idx : e.rule \notin npRules}
        res == UpdateSecurityGroupRules(c, g, add, rm, fail)
    IN  IF entry.state # "Created" \/ (add = {} /\ rm = {})
        THEN [cloud |-> c, idx |-> idx, calls |-> NoCall]
        ELSE [cloud |-> res.cloud,
              idx |-> IF res.ok
                      THEN (idx \ rm) \cup {[rule |-> r, np |-> TRUE] :
                                               r \in add}
                      ELSE idx,
              calls |-> {[op |-> "rules", ok |-> res.ok]}]

\* The rules of the policies applied to a group.
PolicyRules(pol) == IF pol.exists THEN pol.rules ELSE {}

\* A plausible slip: the trackers are marked whenever a policy targets the
\* group.
MarksDirtyAlways(ready, targeted) == targeted

\* With no drift and a policy that targets the group, the trackers are
\* marked dirty unless ruleReady is already set.
MarksDirty(ready, targeted) == targeted /\ ~ready

\* appliedToSecurityGroup.sync after syncImpl returned m: hasMembers, then
\* the rules.
AppliedToRules(m, g, content, idx, pol, failRules) ==
    LET e1 == [m.entry EXCEPT !.hasMembers =
                  @ \/ (m.same /\ m.entry.members # NoMembers)]
        npRules == PolicyRules(pol)
        idx1 == IF content.reported
                THEN IndexAfterSync(idx, content.rules) ELSE idx
        drift == \/ ~content.reported
                 \/ IndexerUpdate(idx, content.rules)
                 \/ ItemMismatch(npRules, content.rules)
        u == UpdateAllRules(e1, g, m.cloud, idx1, npRules, failRules)
    IN  IF drift
        THEN [entry |-> e1, cloud |-> u.cloud, idx |-> u.idx,
              calls |-> m.calls \cup Invoke("updateAllRules", u).calls,
              dirty |-> FALSE]
        ELSE [entry |-> [e1 EXCEPT !.ruleReady = @ \/ pol.exists],
              cloud |-> m.cloud, idx |-> idx1, calls |-> m.calls,
              dirty |-> MarksDirty(e1.ruleReady, pol.exists)]

\* appliedToSecurityGroup.sync after the deletePending test: the members,
\* then the rules.
AppliedToSync(entry, g, c, content, idx, pol, failMembers, failRules) ==
    AppliedToRules(SyncImpl(entry, g, c, content, failMembers), g, content,
                   idx, pol, failRules)

(***************************************************************************)
(* syncWithCloud and processBookMark, step by step.  The call blocks: no   *)
(* event is processed between its first step and its return.               *)
(***************************************************************************)
\* The record of a call of the running pass; k numbers the calls of one
\* operation on one group within the pass.
Call(op, g, ok) ==
    [pass |-> syncPass, op |-> op, group |-> g, ok |-> ok,
     k |-> 1 + Cardinality({e \in syncCalls :
                               /\ e.pass = syncPass
                               /\ e.op = op
                               /\ e.group = g})]

Record(g, calls) == syncCalls \cup {Call(c.op, g, c.ok) : c \in calls}

\* syncWithCloud returns at once with too few bookmarks.
SyncReadyUngated(cnt) == TRUE

SyncReady(cnt) == ~(cnt < npSyncReadyBookMarkCnt)

\* A group of the snapshot without an entry in the indexer of its kind.
UnknownSgAny(g) == TRUE

UnknownSg(g) == ~sgIndex[g].present

Cost(refused) == IF refused THEN 1 ELSE 0

\* A refusal is one of a call that was made.
Refused(calls, ops) == \E c \in calls : c.op \in ops /\ ~c.ok

\* The snapshot is read from the channel: the adapter's view, which is
\* empty when the adapter could not describe the VPC.
SyncStart(cnt) ==
    IF SyncReady(cnt)
    THEN \E readOk \in BOOLEAN :
            \E view \in {IF readOk THEN CloudView ELSE EmptyView} :
                /\ ~readOk => faults < MaxFaults
                /\ faults' = faults + Cost(~readOk)
                /\ snapshot' = view
                /\ syncPending' = DOMAIN view
                /\ syncPass' = syncPass + 1
                /\ syncCalls' = syncCalls \cup
                       {[pass |-> syncPass + 1, op |-> "snapshot",
                         group |-> NoGroup, ok |-> readOk, k |-> 1]}
                /\ syncPc' = "contents"
                /\ cloudSeen' = {}
                /\ rscWithUnknownSGs' = {}
                /\ syncQuietStart' = (lastEvent = "returned")
    ELSE UNCHANGED <<snapshot, syncPending, syncPass, syncCalls, syncPc,
                     cloudSeen, rscWithUnknownSGs, syncQuietStart, faults>>

\* processBookMark has seen the first synchronisation.
SyncedNever(synced) == FALSE

Synced(synced) == synced

\* processBookMark(event).
ProcessBookMark(event) ==
    /\ syncPc = "idle"
    /\ lastEvent' = event
    /\ IF event # "Bookmark"
       THEN /\ bookmarkRet' = "false"
            /\ UNCHANGED <<bookmarkCnt, bookmarksProcessed, bookmarkSyncs,
                           snapshot, syncPending, syncPass, syncCalls,
                           syncPc, cloudSeen, rscWithUnknownSGs,
                           syncQuietStart, faults>>
       ELSE /\ bookmarksProcessed < MaxBookmarks
            /\ bookmarksProcessed' = bookmarksProcessed + 1
            /\ bookmarkRet' = "true"
            /\ IF Synced(syncedWithCloud)
               THEN UNCHANGED <<bookmarkCnt, bookmarkSyncs, snapshot,
                                syncPending, syncPass, syncCalls, syncPc,
                                cloudSeen, rscWithUnknownSGs,
                                syncQuietStart, faults>>
               ELSE /\ bookmarkCnt' = bookmarkCnt + 1
                    /\ bookmarkSyncs' =
                           IF SyncReady(bookmarkCnt + 1)
                           THEN bookmarkSyncs + 1 ELSE bookmarkSyncs
                    /\ SyncStart(bookmarkCnt + 1)
    /\ UNCHANGED <<syncedWithCloud, sgIndex, invNics, policy, cloudRuleIdx,
                   sgRules, dirtyGroups, nicGroups, sgInCloud,
                   defaultSgCached>>
    /\ UNCHANGED notSync

\* syncWithCloud called again, with no event in between.
SyncWithCloud ==
    /\ syncPc = "idle"
    /\ syncPass < MaxSyncs
    /\ lastEvent' = "sync"
    /\ bookmarkRet' = "none"
    /\ SyncStart(bookmarkCnt)
    /\ UNCHANGED <<bookmarkCnt, bookmarksProcessed, bookmarkSyncs,
                   syncedWithCloud, sgIndex, invNics, policy,
                   cloudRuleIdx, sgRules, dirtyGroups, nicGroups, sgInCloud,
                   defaultSgCached>>
    /\ UNCHANGED notSync

\* What the steps of a pass leave alone.
passFixed == <<bookmarkCnt, bookmarksProcessed, bookmarkSyncs, bookmarkRet,
               invNics, policy, snapshot, syncPass, syncQuietStart>>

\* delete of a group built from a content, Created and without members, as
\* the state machine has it: the adapter detaches the group from every NIC
\* and deletes it.
DeleteImpl(g, c, deleteFails) ==
    MemberCall(c, "delete", g, NoMembers, FALSE, deleteFails)

\* A plausible slip: a group pending delete is synchronised like any other.
SkipSyncNever(entry) == FALSE

\* sync returns at once for a group whose deletePending is set.
SkipSync(entry) == entry.deletePending

\* One content of the channel: a group without an entry is deleted, the
\* others are kept for the groups' sync.
SyncContent(g) ==
    /\ syncPc = "contents"
    /\ g \in syncPending
    /\ syncPending' = syncPending \ {g}
    /\ IF UnknownSg(g)
       THEN \E deleteFails \in BOOLEAN :
               \E res \in {DeleteImpl(g, Vpc, deleteFails)} :
                   /\ deleteFails => /\ faults < MaxFaults
                                      /\ Refused(res.calls, {"delete"})
                   /\ faults' = faults + Cost(deleteFails)
                   /\ SetVpc(res.cloud)
                   /\ syncCalls' = Record(g, res.calls)
                   /\ UNCHANGED <<cloudSeen, rscWithUnknownSGs>>
       ELSE /\ cloudSeen' = cloudSeen \cup {g}
            /\ rscWithUnknownSGs' =
                   IF g \in AppliedToSGs
                   THEN rscWithUnknownSGs
                        \cup snapshot[g].membersWithOtherSGAttached
                   ELSE rscWithUnknownSGs
            /\ UNCHANGED <<syncCalls, nicGroups, sgInCloud,
                           defaultSgCached, sgRules, faults>>
    /\ UNCHANGED <<syncPc, syncedWithCloud, sgIndex, cloudRuleIdx,
                   dirtyGroups, lastEvent>>
    /\ UNCHANGED passFixed
    /\ UNCHANGED notSync

\* The channel is closed.
SyncContentsDone ==
    /\ syncPc = "contents"
    /\ syncPending = {}
    /\ syncedWithCloud' = TRUE
    /\ syncPc' = "addr"
    /\ syncPending' = {g \in AddressGroupSGs : sgIndex[g].present}
    /\ UNCHANGED <<sgIndex, cloudRuleIdx, dirtyGroups, faults, lastEvent,
                   cloudSeen,
                   rscWithUnknownSGs, syncCalls, nicGroups, sgInCloud,
                   defaultSgCached, sgRules>>
    /\ UNCHANGED passFixed
    /\ UNCHANGED notSync

\* addrSecurityGroup.sync of one entry of the address group indexer.
SyncAddr(g) ==
    /\ syncPc = "addr"
    /\ g \in syncPending
    /\ syncPending' = syncPending \ {g}
    /\ IF SkipSync(sgIndex[g])
       THEN /\ syncCalls' = Record(g, {[op |-> "sync", ok |-> TRUE]})
            /\ UNCHANGED <<sgIndex, nicGroups, sgInCloud, defaultSgCached,
                           sgRules, faults>>
       ELSE \E fail \in BOOLEAN :
               \E res \in {SyncImpl(sgIndex[g], g, Vpc, ContentOf(g),
                                    fail)} :
                   /\ fail => /\ faults < MaxFaults
                               /\ Refused(res.calls, {"create", "members"})
                   /\ faults' = faults + Cost(fail)
                   /\ sgIndex' = [sgIndex EXCEPT ![g] = res.entry]
                   /\ SetVpc(res.cloud)
                   /\ syncCalls' = Record(g, res.calls
                                      \cup {[op |-> "sync", ok |-> TRUE]})
    /\ UNCHANGED <<syncPc, syncedWithCloud, cloudRuleIdx, dirtyGroups,
                   lastEvent, cloudSeen, rscWithUnknownSGs>>
    /\ UNCHANGED passFixed
    /\ UNCHANGED notSync

\* The address groups are done.
SyncAddrDone ==
    /\ syncPc = "addr"
    /\ syncPending = {}
    /\ syncPc' = "appliedTo"
    /\ syncPending' = {g \in AppliedToSGs : sgIndex[g].present}
    /\ UNCHANGED <<syncedWithCloud, sgIndex, cloudRuleIdx, dirtyGroups,
                   faults, lastEvent, cloudSeen, rscWithUnknownSGs, syncCalls,
                   nicGroups, sgInCloud, defaultSgCached, sgRules>>
    /\ UNCHANGED passFixed
    /\ UNCHANGED notSync

\* appliedToSecurityGroup.sync of one entry of the appliedTo group indexer.
SyncAppliedTo(g) ==
    /\ syncPc = "appliedTo"
    /\ g \in syncPending
    /\ syncPending' = syncPending \ {g}
    /\ IF SkipSync(sgIndex[g])
       THEN /\ syncCalls' = Record(g, {[op |-> "sync", ok |-> TRUE]})
            /\ UNCHANGED <<sgIndex, cloudRuleIdx, dirtyGroups, nicGroups,
                           sgInCloud, defaultSgCached, sgRules, faults>>
       ELSE \E failMembers, failRules \in BOOLEAN :
               \E res \in {AppliedToSync(sgIndex[g], g, Vpc, ContentOf(g),
                                         cloudRuleIdx[g], policy[g],
                                         failMembers, failRules)} :
                   /\ faults + Cost(failMembers) + Cost(failRules)
                          <= MaxFaults
                   /\ failMembers =>
                          Refused(res.calls, {"create", "members"})
                   /\ failRules => Refused(res.calls, {"rules"})
                   /\ faults' = faults + Cost(failMembers) + Cost(failRules)
                   /\ sgIndex' = [sgIndex EXCEPT ![g] = res.entry]
                   /\ cloudRuleIdx' = [cloudRuleIdx EXCEPT ![g] = res.idx]
                   /\ dirtyGroups' = IF res.dirty
                                     THEN dirtyGroups \cup {g}
                                     ELSE dirtyGroups
                   /\ SetVpc(res.cloud)
                   /\ syncCalls' = Record(g, res.calls
                                      \cup {[op |-> "sync", ok |-> TRUE]})
    /\ UNCHANGED <<syncPc, syncedWithCloud, lastEvent, cloudSeen,
                   rscWithUnknownSGs>>
    /\ UNCHANGED passFixed
    /\ UNCHANGED notSync

\* The appliedTo groups are done.
SyncAppliedToDone ==
    /\ syncPc = "appliedTo"
    /\ syncPending = {}
    /\ syncPc' = "nudge"
    /\ syncPending' = rscWithUnknownSGs
    /\ UNCHANGED <<syncedWithCloud, sgIndex, cloudRuleIdx, dirtyGroups,
                   faults, lastEvent, cloudSeen, rscWithUnknownSGs, syncCalls,
                   nicGroups, sgInCloud, defaultSgCached, sgRules>>
    /\ UNCHANGED passFixed
    /\ UNCHANGED notSync

\* The appliedTo groups of a resource's tracker: the groups of the index
\* that hold the resource as a member.
TrackerAppliedToSGs(n) ==
    {g \in AppliedToSGs : sgIndex[g].present /\ n \in sgIndex[g].members.nics}

\* One resource that carries a group the controller did not create: one of
\* the appliedTo groups of its tracker is updated with nothing added or
\* removed; a resource without a tracker is passed over.
SyncNudge(n) ==
    /\ syncPc = "nudge"
    /\ n \in syncPending
    /\ syncPending' = syncPending \ {n}
    /\ IF TrackerAppliedToSGs(n) = {}
       THEN UNCHANGED <<sgIndex, syncCalls, nicGroups, sgInCloud,
                        defaultSgCached, sgRules, faults>>
       ELSE \E g \in TrackerAppliedToSGs(n), fail \in BOOLEAN :
               \E res \in {UpdateImpl(sgIndex[g], g, Vpc, fail)} :
                   /\ fail => /\ faults < MaxFaults
                               /\ Refused(res.calls, {"members"})
                   /\ faults' = faults + Cost(fail)
                   /\ sgIndex' = [sgIndex EXCEPT ![g] = res.entry]
                   /\ SetVpc(res.cloud)
                   /\ syncCalls' = Record(g, res.calls)
    /\ UNCHANGED <<syncPc, syncedWithCloud, cloudRuleIdx, dirtyGroups,
                   lastEvent, cloudSeen, rscWithUnknownSGs>>
    /\ UNCHANGED passFixed
    /\ UNCHANGED notSync

\* syncWithCloud returns.
SyncReturn ==
    /\ syncPc = "nudge"
    /\ syncPending = {}
    /\ syncPc' = "idle"
    /\ lastEvent' = "returned"
    /\ UNCHANGED <<syncPending, syncedWithCloud, sgIndex, cloudRuleIdx,
                   dirtyGroups, faults, cloudSeen, rscWithUnknownSGs, syncCalls,
                   nicGroups, sgInCloud, defaultSgCached, sgRules>>
    /\ UNCHANGED passFixed
    /\ UNCHANGED notSync

\* The inventory knows the NICs of each VM.
InventoryOf(na) == [v \in Instances |-> {n \in Nics : na[n] = v}]

AtA == [kind |-> "at", name |-> "a"]

AtB == [kind |-> "at", name |-> "b"]

AgA == [kind |-> "ag", name |-> "a"]

\* The entries an indexer can hold of a group before a pass.
Entries ==
    {AbsentEntry}
    \cup {SgEntry("Created", m, FALSE) : m \in MemberLists}
    \cup {SgEntry("Created", NoMembers, TRUE)}

\* Groups and members vary on a VPC without rules and policies: NIC 1
\* carries any groups and may be detached from its instance, the other NICs
\* are on the instance with the default group.
InitMembership ==
    /\ nicAttachment \in {[n \in Nics |-> IF n = 1 THEN a ELSE "vm1"] :
                             a \in Instances \cup {"none"}}
    /\ nicGroups \in {[n \in Nics |->
                           IF n = 1 THEN m \cup o ELSE {VpcDefaultSg}] :
                         m \in SUBSET ManagedSGs,
                         o \in {{}, {VpcDefaultSg}}}
    /\ nicGroups[1] # {}
    /\ sgInCloud \in {(nicGroups[1] \cap ManagedSGs) \cup x :
                         x \in SUBSET AppliedToSGs}
    /\ sgIndex \in {[g \in ManagedSGs |->
                        IF g = AtA THEN e1
                        ELSE IF g = AgA THEN e2 ELSE AbsentEntry] :
                       e1 \in Entries,
                       e2 \in {AbsentEntry,
                               SgEntry("Created",
                                       [vms |-> {"vm1"}, nics |-> {}],
                                       FALSE)}}
    /\ policy = [g \in AppliedToSGs |-> NoPolicy]
    /\ cloudRuleIdx = [g \in AppliedToSGs |-> {}]
    /\ sgRules = [g \in AppliedToSGs |-> {}]

\* Rules, policies and the rule index vary on one appliedTo group whose
\* members agree with the cloud.
InitPolicies ==
    /\ nicAttachment = [n \in Nics |-> "vm1"]
    /\ nicGroups = [n \in Nics |-> {AtA}]
    /\ sgInCloud = {AtA}
    /\ sgIndex = [g \in ManagedSGs |->
                     IF g = AtA
                     THEN SgEntry("Created", [vms |-> {"vm1"}, nics |-> {}],
                                  FALSE)
                     ELSE AbsentEntry]
    /\ policy \in {[g \in AppliedToSGs |-> IF g = AtA THEN pol ELSE NoPolicy] :
                      pol \in {NoPolicy}
                              \cup [exists : {TRUE}, rules : SUBSET SyncRules]}
    /\ cloudRuleIdx \in {[g \in AppliedToSGs |-> IF g = AtA THEN idx ELSE {}] :
                            idx \in RuleIndexes}
    /\ sgRules \in {[g \in AppliedToSGs |-> IF g = AtA THEN r ELSE {}] :
                       r \in SUBSET SyncRules}

InitSync ==
    /\ mutex = "free"
    /\ IdleModify
    /\ IdleStart
    /\ IdleInventory
    /\ IdleDesc
    /\ IdleRules
    /\ (InitMembership \/ InitPolicies)
    /\ invNics = InventoryOf(nicAttachment)
    /\ defaultSgCached = FALSE
    /\ NoMemberCall
    /\ IdleAdapter
    /\ IdleAccounts
    /\ IdleCache
    /\ FreshReconciler
    /\ IdleTracker

NextSync ==
    \/ \E event \in WatchEvents : ProcessBookMark(event)
    \/ SyncWithCloud
    \/ \E g \in ManagedSGs : SyncContent(g)
    \/ SyncContentsDone
    \/ \E g \in AddressGroupSGs : SyncAddr(g)
    \/ SyncAddrDone
    \/ \E g \in AppliedToSGs : SyncAppliedTo(g)
    \/ SyncAppliedToDone
    \/ \E n \in Nics : SyncNudge(n)
    \/ SyncReturn

SpecSync == InitSync /\ [][NextSync]_vars

(***************************************************************************)
(* The sync of the groups on its own: syncWithCloud has read the snapshot  *)
(* of a VPC in which every managed group has an entry, and goes over the   *)
(* address groups and then the appliedTo groups.  The entries are in any   *)
(* state an entry can be in, deletePending and ruleReady included.         *)
(***************************************************************************)
\* The entries of a group with an entry: either state, any members.
GroupEntries ==
    {SgEntry(st, m, dp) :
        st \in {"Init", "Created"}, m \in MemberLists, dp \in BOOLEAN}

\* Members vary: the groups' entries, and the groups the NICs carry.
GroupMembership ==
    /\ nicGroups \in [Nics -> SUBSET {AtA, AgA}]
    /\ sgInCloud \in {UNION {nicGroups[n] : n \in Nics} \cup x :
                         x \in SUBSET {AtA, AgA}}
    /\ sgIndex \in {[g \in ManagedSGs |->
                        IF g = AtA THEN e1
                        ELSE IF g = AgA THEN e2 ELSE AbsentEntry] :
                       e1 \in GroupEntries,
                       e2 \in {SgEntry("Created",
                                       [vms |-> {"vm1"}, nics |-> {}], FALSE),
                               SgEntry("Init", NoMembers, FALSE),
                               SgEntry("Created", NoMembers, TRUE)}}
    /\ policy = [g \in AppliedToSGs |-> NoPolicy]
    /\ cloudRuleIdx = [g \in AppliedToSGs |-> {}]
    /\ sgRules = [g \in AppliedToSGs |-> {}]

\* The rule index of a group that is pending delete still holds a rule.
PendingRules ==
    {[rule |-> r, np |-> TRUE] : r \in {x \in SyncRules : x.dir = "ingress"}}

\* Rules vary as in InitPolicies, on a group whose ruleReady is set or not,
\* next to a group that is not there or is pending delete with its rules
\* still in the index.
GroupPolicies ==
    /\ nicGroups = [n \in Nics |-> {AtA}]
    /\ sgInCloud = {AtA}
    /\ \E other \in BOOLEAN :
          /\ sgIndex \in {[g \in ManagedSGs |->
                              IF g = AtA
                              THEN [SgEntry("Created",
                                            [vms |-> {"vm1"}, nics |-> {}],
                                            FALSE)
                                       EXCEPT !.ruleReady = ready]
                              ELSE IF g = AtB /\ other
                              THEN SgEntry("Created", NoMembers, TRUE)
                              ELSE AbsentEntry] : ready \in BOOLEAN}
          /\ cloudRuleIdx \in {[g \in AppliedToSGs |->
                                    IF g = AtA THEN idx
                                    ELSE IF other THEN PendingRules ELSE {}] :
                                  idx \in RuleIndexes}
    /\ policy \in {[g \in AppliedToSGs |-> IF g = AtA THEN pol ELSE NoPolicy] :
                      pol \in {NoPolicy}
                              \cup [exists : {TRUE}, rules : SUBSET SyncRules]}
    /\ sgRules \in {[g \in AppliedToSGs |-> IF g = AtA THEN r ELSE {}] :
                       r \in SUBSET SyncRules}

\* syncWithCloud after its first loop: the snapshot was read, or the read
\* failed and nothing was received.
InitGroupSync ==
    /\ mutex = "free"
    /\ IdleModify
    /\ IdleStart
    /\ IdleInventory
    /\ IdleDesc
    /\ IdleRules
    /\ nicAttachment = [n \in Nics |-> "vm1"]
    /\ GroupMembership \/ GroupPolicies
    /\ invNics = InventoryOf(nicAttachment)
    /\ defaultSgCached = FALSE
    /\ NoMemberCall
    /\ IdleAdapter
    /\ IdleAccounts
    /\ IdleCache
    /\ IdleTracker
    /\ \E readOk \in BOOLEAN :
          /\ snapshot = IF readOk THEN CloudView ELSE EmptyView
          /\ syncCalls = {[pass |-> 1, op |-> "snapshot", group |-> NoGroup,
                           ok |-> readOk, k |-> 1]}
          /\ faults = Cost(~readOk)
    /\ cloudSeen = DOMAIN snapshot
    /\ rscWithUnknownSGs = {}
    /\ syncPc = "addr"
    /\ syncPending = {g \in AddressGroupSGs : sgIndex[g].present}
    /\ syncPass = 1
    /\ syncQuietStart = FALSE
    /\ syncedWithCloud = TRUE
    /\ dirtyGroups = {}
    /\ bookmarkCnt = npSyncReadyBookMarkCnt
    /\ bookmarksProcessed = npSyncReadyBookMarkCnt
    /\ bookmarkSyncs = 1
    /\ lastEvent = "Bookmark"
    /\ bookmarkRet = "true"

NextGroupSync ==
    \/ \E g \in AddressGroupSGs : SyncAddr(g)
    \/ SyncAddrDone
    \/ \E g \in AppliedToSGs : SyncAppliedTo(g)
    \/ SyncAppliedToDone

SpecGroupSync == InitGroupSync /\ [][NextGroupSync]_vars

(***************************************************************************)
(* The cloud-resource NetworkPolicy tracker of one VM, the status computed *)
(* from it, and the sweep of dirty trackers.  The keys of appliedToSGs and *)
(* prevAppliedToSGs are the appliedTo groups; sgStatus is the status field *)
(* of the group a key maps to.                                             *)
(***************************************************************************)
Namespaces == {"n1", "n2"}

\* The namespaces the VM of the resource can be imported into.
ImportNamespaces == {"n1"}

\* The policies the networkPolicyIndexer can hold: name, namespace and the
\* appliedTo groups it is indexed by.
PolicyUniverse ==
    {[name |-> "p1", ns |-> "n1", atgs |-> {AtA, AtB}],
     [name |-> "p2", ns |-> "n2", atgs |-> {AtB}]}

\* The orders in which a range over a map keyed by appliedTo group can
\* visit its keys.
Orders ==
    {o \in [1..Cardinality(AppliedToSGs) -> AppliedToSGs] :
        \A i, j \in DOMAIN o : o[i] = o[j] => i = j}

\* The group of gs that the order visits last: a later assignment to the
\* same map entry overwrites an earlier one.
VisitedLast(order, gs) ==
    CHOOSE g \in gs :
       \A h \in gs : \E i, j \in DOMAIN order :
          order[i] = h /\ order[j] = g /\ i <= j

\* A plausible slip: no update is taken for a duplicate.
IsDuplicateNever(applied, sg, isDelete) == FALSE

\* update returns at once when the group is in appliedToSGs and is to be
\* added, or is not in it and is to be deleted.
IsDuplicate(applied, sg, isDelete) == (sg \in applied) # isDelete

\* A plausible slip: markDirty is left out.
MarkDirtyForgotten(d) == d

\* markDirty stores true.
MarkDirty(d) == "true"

\* unmarkDirty stores false.
UnmarkDirty(d) == "false"

\* appliedToSGs after an update that is no duplicate.
AppliedAfterUpdate(applied, sg, isDelete) ==
    IF isDelete THEN applied \ {sg} ELSE applied \cup {sg}

\* A plausible slip: an added group is not taken out of prevAppliedToSGs.
PrevAfterUpdateKeeps(prev, sg, isDelete) ==
    IF isDelete THEN prev \cup {sg} ELSE prev

\* prevAppliedToSGs after an update that is no duplicate.
PrevAfterUpdate(prev, sg, isDelete) ==
    IF isDelete THEN prev \cup {sg} ELSE prev \ {sg}

\* The status strings computeNPStatus builds: the appliedTo group's key
\* and a text, or the text of a policy's own error.
Message(g, text) == [sg |-> g.name, text |-> text]

PolicyErrorMessage == [sg |-> "", text |-> "policy error"]

\* AppliedSecurityGroupDeleteError
DeleteErrorMessage(g) == Message(g, "Deleting/Detaching appliedTo sg")

\* A plausible slip: the group's error is looked at before the policy's.
PolicyMessageSgFirst(np, g, npErr, atFound, status) ==
    IF g \notin atFound THEN Message(g, "Internal Error ")
    ELSE IF status[g] # "nil" THEN Message(g, "err")
    ELSE IF np \in npErr THEN PolicyErrorMessage
    ELSE Message(g, "applied")

\* The status of policy np, entered in npMap under group g: the policy's
\* own error, an internal error when the group is not in the appliedTo
\* indexer, the group's error, or applied.
PolicyMessage(np, g, npErr, atFound, status) ==
    IF np \in npErr THEN PolicyErrorMessage
    ELSE IF g \notin atFound THEN Message(g, "Internal Error ")
    ELSE IF status[g] # "nil" THEN Message(g, "err")
    ELSE Message(g, "applied")

\* A plausible slip: no group is taken out of prevAppliedToSGs.
NewPrevSgsKeepsAll(prev, status) == prev

\* The groups of prevAppliedToSGs that are kept: those whose status is set.
NewPrevSgs(prev, status) == {g \in prev : status[g] # "nil"}

\* The policy of the given name.
PolicyNamed(nps, name) == CHOOSE np \in nps : np.name = name

\* The list of namespace ns: the policies of ns indexed by a group of
\* appliedToSGs, each under the group visited last, then the policies of
\* ns indexed by a kept group of prevAppliedToSGs, which get the delete
\* error of the group visited last and lose what the first loop gave them.
NpList(ns, applied, kept, nps, status, npErr, atFound, order, prevOrder) ==
    LET current == {np \in nps : np.ns = ns /\ np.atgs \cap applied # {}}
        draining == {np \in nps : np.ns = ns /\ np.atgs \cap kept # {}}
    IN  [n \in {np.name : np \in draining} |->
            DeleteErrorMessage(
                VisitedLast(prevOrder, PolicyNamed(draining, n).atgs \cap kept))]
        @@ [n \in {np.name : np \in current} |->
               PolicyMessage(PolicyNamed(current, n),
                             VisitedLast(order,
                                 PolicyNamed(current, n).atgs \cap applied),
                             npErr, atFound, status)]

\* The list of namespace "": the kept groups no policy is indexed by.
DanglingList(kept, nps) ==
    LET dangling == {g \in kept : ~\E np \in nps : g \in np.atgs}
    IN  [k \in {g.name : g \in dangling} |->
            DeleteErrorMessage(CHOOSE g \in dangling : g.name = k)]

\* computeNPStatus: namespace -> policy name -> status; a namespace is a
\* key only when its list has an entry.
ComputeNPStatus(applied, prev, nps, status, npErr, atFound, order, prevOrder) ==
    LET kept == NewPrevSgs(prev, status)
        lists == [ns \in Namespaces |->
                     NpList(ns, applied, kept, nps, status, npErr, atFound,
                            order, prevOrder)]
        dangling == DanglingList(kept, nps)
        keys == {ns \in Namespaces : DOMAIN lists[ns] # {}}
                \cup (IF DOMAIN dangling # {} THEN {""} ELSE {})
    IN  [k \in keys |-> IF k = "" THEN dangling ELSE lists[k]]

\* vmNPStatusSetter, for the VM of namespace ns: the status of the VM's
\* namespace with the list of namespace "" copied over it.
NpStatusOf(status, ns) ==
    (IF "" \in DOMAIN status THEN status[""] ELSE NoEntries)
    @@ (IF ns \in DOMAIN status THEN status[ns] ELSE NoEntries)

\* A plausible slip: the status is written even when it is empty.
CacheOpAlwaysUpdates(status, index, ns) ==
    IF ns \notin DOMAIN status /\ ns \notin DOMAIN index THEN "skip"
    ELSE IF /\ ns \in DOMAIN status
            /\ (IF ns \in DOMAIN index THEN index[ns] ELSE NoEntries)
                  = NpStatusOf(status, ns) THEN "skip"
    ELSE "update"

\* What vmNPStatusSetter does for the VM of namespace ns: nothing without
\* a status and without a cached entry, nothing when the cached entry
\* equals the status of a namespace that has one, an Update of a status
\* with entries, a Delete otherwise.
CacheOp(status, index, ns) ==
    IF ns \notin DOMAIN status /\ ns \notin DOMAIN index THEN "skip"
    ELSE IF /\ ns \in DOMAIN status
            /\ (IF ns \in DOMAIN index THEN index[ns] ELSE NoEntries)
                  = NpStatusOf(status, ns) THEN "skip"
    ELSE IF DOMAIN NpStatusOf(status, ns) # {} THEN "update"
    ELSE "delete"

\* virtualMachinePolicyIndexer after vmNPStatusSetter went over the VMs of
\* vms with the writes of failing rejected.  The status is assigned to
\* the cached object before Update is called, so a cached entry holds the
\* new status even when its Update fails.
IndexAfter(status, index, vms, failing) ==
    LET op == [ns \in Namespaces |->
                  IF ns \in vms THEN CacheOp(status, index, ns) ELSE "skip"]
        present == {ns \in Namespaces :
                      CASE op[ns] = "skip" -> ns \in DOMAIN index
                        [] op[ns] = "update" ->
                              ns \notin failing \/ ns \in DOMAIN index
                        [] op[ns] = "delete" -> ns \in failing}
    IN  [ns \in present |->
            IF op[ns] = "update" THEN NpStatusOf(status, ns) ELSE index[ns]]

\* The VMs for which vmNPStatusSetter calls Update or Delete.
Written(status, index, vms) ==
    {ns \in vms : CacheOp(status, index, ns) # "skip"}

\* A plausible slip: a tracker is dropped as soon as appliedToSGs is empty.
ShouldDeleteIgnoresPrev(applied, prev) == applied = {}

\* The sweep deletes a tracker whose two maps are empty.
ShouldDelete(applied, prev) == applied = {} /\ prev = {}

Alive == trkOp.op # "panic"

\* newCloudResourceNPTracker, reached through getCloudResourceNPTracker
\* with create set when the index has no tracker of the resource: the two
\* maps are made, dirty is not stored, and the tracker is added to the
\* index; nil is returned when the Add fails.
NewCloudResourceNPTracker ==
    /\ Alive
    /\ ~trackerIndexed
    /\ \E addFails \in BOOLEAN :
          /\ trackerIndexed' = ~addFails
          /\ trkOp' = [op |-> "new", ok |-> ~addFails]
    /\ dirty' = "unset"
    /\ appliedToSGs' = {}
    /\ prevAppliedToSGs' = {}
    /\ UNCHANGED <<sgStatus, networkPolicies, vmNamespaces, vmPolicyIndex>>
    /\ UNCHANGED notTracker

\* cloudResourceNPTracker.update, on the tracker of the index or on the
\* tracker the caller has just updated.
TrackerUpdate(sg, isDelete) ==
    /\ Alive
    /\ trackerIndexed \/ trkOp.op = "update"
    /\ IF IsDuplicate(appliedToSGs, sg, isDelete)
       THEN /\ trkOp' = [op |-> "update", sg |-> sg, isDelete |-> isDelete,
                         dup |-> TRUE, ret |-> "nil"]
            /\ UNCHANGED <<trackerIndexed, dirty, appliedToSGs,
                           prevAppliedToSGs>>
       ELSE \E addFails \in BOOLEAN :
               /\ dirty' = MarkDirty(dirty)
               /\ appliedToSGs' = AppliedAfterUpdate(appliedToSGs, sg, isDelete)
               /\ prevAppliedToSGs' =
                     PrevAfterUpdate(prevAppliedToSGs, sg, isDelete)
               /\ trackerIndexed' = ~addFails
               /\ trkOp' = [op |-> "update", sg |-> sg, isDelete |-> isDelete,
                            dup |-> FALSE,
                            ret |-> IF addFails THEN "err" ELSE "nil"]
    /\ UNCHANGED <<sgStatus, networkPolicies, vmNamespaces, vmPolicyIndex>>
    /\ UNCHANGED notTracker

\* What a sweep records of the tracker it met.
SweepOp(wasDirty, setterErr, failed, pruned) ==
    [op |-> "sweep", wasDirty |-> wasDirty, setterErr |-> setterErr,
     writeFailed |-> failed, pruned |-> pruned]

\* The sweep of a tracker that is dirty: computeNPStatus prunes
\* prevAppliedToSGs, vmNPStatusSetter writes the status of every VM of the
\* resource, and the tracker is deleted or unmarked unless the setter
\* returned an error.
SweepDirty(inventoryErr, failing, npErr, atFound, order, prevOrder) ==
    \E kept \in {NewPrevSgs(prevAppliedToSGs, sgStatus)},
       status \in {ComputeNPStatus(appliedToSGs, prevAppliedToSGs,
                                   networkPolicies, sgStatus, npErr,
                                   atFound, order, prevOrder)} :
       /\ prevAppliedToSGs' = kept
       /\ trkOp' = SweepOp(TRUE, inventoryErr, failing # {},
                           kept # prevAppliedToSGs)
       /\ IF inventoryErr
          THEN /\ failing = {}
               /\ UNCHANGED <<vmPolicyIndex, dirty, trackerIndexed>>
          ELSE /\ failing \subseteq Written(status, vmPolicyIndex, vmNamespaces)
               /\ vmPolicyIndex' =
                     IndexAfter(status, vmPolicyIndex, vmNamespaces, failing)
               /\ IF ShouldDelete(appliedToSGs, kept)
                  THEN /\ trackerIndexed' = FALSE
                       /\ dirty' = IF failing # {} THEN MarkDirty(dirty)
                                   ELSE dirty
                  ELSE /\ trackerIndexed' = TRUE
                       /\ dirty' = UnmarkDirty(dirty)

\* processCloudResourceNPTrackers over the index: isDirty panics on a
\* dirty that was never stored, a tracker that is not dirty is passed
\* over.  During one sweep either every policy reports an error or none
\* does, and either every appliedTo group is in its indexer or none is.
ProcessCloudResourceNPTrackers ==
    /\ Alive
    /\ trackerIndexed
    /\ IF dirty = "unset"
       THEN /\ trkOp' = [op |-> "panic"]
            /\ UNCHANGED <<trackerIndexed, dirty, prevAppliedToSGs,
                           vmPolicyIndex>>
       ELSE IF dirty = "false"
       THEN /\ trkOp' = SweepOp(FALSE, FALSE, FALSE, FALSE)
            /\ UNCHANGED <<trackerIndexed, dirty, prevAppliedToSGs,
                           vmPolicyIndex>>
       ELSE \E inventoryErr \in BOOLEAN, failing \in SUBSET vmNamespaces,
               npErr \in {{}, networkPolicies},
               atFound \in {{}, AppliedToSGs},
               order \in Orders, prevOrder \in Orders :
               SweepDirty(inventoryErr, failing, npErr, atFound, order,
                          prevOrder)
    /\ UNCHANGED <<appliedToSGs, sgStatus, networkPolicies, vmNamespaces>>
    /\ UNCHANGED notTracker

\* A policy enters or leaves the networkPolicyIndexer.
PolicyChange(np) ==
    /\ Alive
    /\ networkPolicies' = IF np \in networkPolicies
                          THEN networkPolicies \ {np}
                          ELSE networkPolicies \cup {np}
    /\ trkOp' = [op |-> "policy"]
    /\ UNCHANGED <<trackerIndexed, dirty, appliedToSGs, prevAppliedToSGs,
                   sgStatus, vmNamespaces, vmPolicyIndex>>
    /\ UNCHANGED notTracker

\* The status of an appliedTo group is set by a failed cloud call or
\* cleared by a successful one.
SgStatusChange(g) ==
    /\ Alive
    /\ sgStatus' = [sgStatus EXCEPT ![g] = IF @ = "nil" THEN "err" ELSE "nil"]
    /\ trkOp' = [op |-> "status"]
    /\ UNCHANGED <<trackerIndexed, dirty, appliedToSGs, prevAppliedToSGs,
                   networkPolicies, vmNamespaces, vmPolicyIndex>>
    /\ UNCHANGED notTracker

\* No tracker yet; the VM of the resource is in the inventory or not.
InitTracker ==
    /\ mutex = "free"
    /\ IdleModify
    /\ IdleStart
    /\ IdleInventory
    /\ IdleDesc
    /\ IdleRules
    /\ IdleMembers
    /\ IdleAdapter
    /\ IdleAccounts
    /\ IdleCache
    /\ IdleSync
    /\ trackerIndexed = FALSE
    /\ dirty = "unset"
    /\ appliedToSGs = {}
    /\ prevAppliedToSGs = {}
    /\ sgStatus = [g \in AppliedToSGs |-> "nil"]
    /\ networkPolicies = {}
    /\ vmNamespaces \in SUBSET ImportNamespaces
    /\ vmPolicyIndex = NoEntries
    /\ trkOp = [op |-> "none"]

NextTracker ==
    \/ NewCloudResourceNPTracker
    \/ \E sg \in AppliedToSGs, isDelete \in BOOLEAN : TrackerUpdate(sg, isDelete)
    \/ ProcessCloudResourceNPTrackers
    \/ \E np \in PolicyUniverse : PolicyChange(np)
    \/ \E g \in AppliedToSGs : SgStatusChange(g)

SpecTracker == InitTracker /\ [][NextTracker]_vars

(***************************************************************************)
(* computeNPStatus on its own, called on a tracker in any state the two    *)
(* maps can be in, with the policies and the group statuses drawn from the *)
(* same sets as above.  The record of the call keeps what was returned.    *)
(***************************************************************************)
\* computeNPStatus: the status is returned and prevAppliedToSGs is replaced
\* by the groups kept, which changes it when a group was left out.
ComputeNPStatusCall(npErr, atFound, order, prevOrder) ==
    /\ Alive
    /\ trkOp' = [op |-> "compute",
                 ret |-> ComputeNPStatus(appliedToSGs, prevAppliedToSGs,
                                         networkPolicies, sgStatus, npErr,
                                         atFound, order, prevOrder),
                 prev |-> prevAppliedToSGs,
                 npErr |-> npErr,
                 atFound |-> atFound]
    /\ prevAppliedToSGs' = NewPrevSgs(prevAppliedToSGs, sgStatus)
    /\ UNCHANGED <<trackerIndexed, dirty, appliedToSGs, sgStatus,
                   networkPolicies, vmNamespaces, vmPolicyIndex>>
    /\ UNCHANGED notTracker

\* A dirty tracker of the index with any two disjoint maps.
InitStatus ==
    /\ mutex = "free"
    /\ IdleModify
    /\ IdleStart
    /\ IdleInventory
    /\ IdleDesc
    /\ IdleRules
    /\ IdleMembers
    /\ IdleAdapter
    /\ IdleAccounts
    /\ IdleCache
    /\ IdleSync
    /\ trackerIndexed = TRUE
    /\ dirty = "true"
    /\ appliedToSGs \in SUBSET AppliedToSGs
    /\ prevAppliedToSGs \in SUBSET (AppliedToSGs \ appliedToSGs)
    /\ sgStatus \in [AppliedToSGs -> {"nil", "err"}]
    /\ networkPolicies \in SUBSET PolicyUniverse
    /\ vmNamespaces = {}
    /\ vmPolicyIndex = NoEntries
    /\ trkOp = [op |-> "none"]

NextStatus ==
    \E npErr \in SUBSET networkPolicies, atFound \in SUBSET AppliedToSGs,
       order \in Orders, prevOrder \in Orders :
       ComputeNPStatusCall(npErr, atFound, order, prevOrder)

SpecStatus == InitStatus /\ [][NextStatus]_vars

(***************************************************************************)
(* The CloudProviderAccount reconciler and the account pollers.  Reconcile *)
(* reads the account: found, it runs processCreateOrUpdate and, on its     *)
(* error, processDelete; not found, it runs processDelete.  The Poller     *)
(* keeps one accountPoller per account; a poller has a channel, and a      *)
(* polling goroutine runs until the channel it was started with is closed. *)
(***************************************************************************)
\* Channels the pollers are given over the run.
MaxChannels == 2

\* What listing the CloudEntitySelectors of the namespace gives: an error,
\* a selector of this account, or none of this account.
CesListings == {"err", "selects", "none"}

\* startPollingThread: no thread only when a listed selector names the
\* account.
startPollingThread(ces) == ces # "selects"

\* A plausible slip: a goroutine is started whatever addAccountPoller
\* reported.
StartsPollingAlways(exists, ces) == startPollingThread(ces)

\* processCreateOrUpdate starts a polling goroutine when addAccountPoller
\* reported no poller and startPollingThread agrees.
StartsPolling(exists, ces) == ~exists /\ startPollingThread(ces)

\* make(chan struct{}) for a poller of account a.
NewChan(a) == [acct |-> a, closed |-> FALSE, tasks |-> 0]

\* close(ch) of channel c; c = 0 is no channel.
CloseChan(chans, c) == [i \in DOMAIN chans |-> IF i = c THEN [chans[i] EXCEPT !.closed = TRUE] ELSE chans[i]]

\* go wait.Until(poller.doAccountPolling, interval, ch) on channel c.
GoPolling(chans, c) == [chans EXCEPT ![c].tasks = @ + 1]

\* Poller.addAccountPoller: the poller of the account if there is one,
\* else a new poller with a new channel is put in the map.
addAccountPoller(pollers, chans, a) == IF pollers[a] # 0 THEN [pollers |-> pollers, chans |-> chans, exists |-> TRUE] ELSE [pollers |-> [pollers EXCEPT ![a] = Len(chans) + 1], chans |-> Append(chans, NewChan(a)), exists |-> FALSE]

\* Poller.restartAccountPoller: the poller's channel is closed, the poller
\* is given a new one and a polling goroutine is started on it.
restartAccountPoller(pollers, chans, a) == [pollers |-> [pollers EXCEPT ![a] = Len(chans) + 1], chans |-> GoPolling(Append(CloseChan(chans, pollers[a]), NewChan(a)), Len(chans) + 1)]

\* Poller.removeAccountPoller: the poller's channel is closed and the
\* poller is taken out of the map.
removeAccountPoller(pollers, chans, a) == [pollers |-> [pollers EXCEPT ![a] = 0], chans |-> CloseChan(chans, pollers[a])]

\* processCreateOrUpdate for account a.  typeOk: the provider type is read
\* from the account; addOk: AddProviderAccount succeeds; ces: what
\* startPollingThread lists.
processCreateOrUpdate(types, pollers, chans, a, typeOk, addOk, ces) ==
    IF ~typeOk
    THEN [types |-> types, pollers |-> pollers, chans |-> chans,
          err |-> TRUE, exists |-> FALSE, reached |-> FALSE]
    ELSE IF ~addOk
    THEN [types |-> [types EXCEPT ![a] = "aws"], pollers |-> pollers,
          chans |-> chans, err |-> TRUE, exists |-> FALSE, reached |-> FALSE]
    ELSE LET added == addAccountPoller(pollers, chans, a)
             restarted == restartAccountPoller(added.pollers, added.chans, a)
             out == IF StartsPolling(added.exists, ces)
                    THEN [pollers |-> added.pollers,
                          chans |-> GoPolling(added.chans, added.pollers[a])]
                    ELSE IF added.exists THEN restarted
                    ELSE [pollers |-> added.pollers, chans |-> added.chans]
         IN  [types |-> [types EXCEPT ![a] = "aws"], pollers |-> out.pollers,
              chans |-> out.chans, err |-> FALSE, exists |-> added.exists,
              reached |-> TRUE]

\* processDelete for account a.  When the account has no poller,
\* removeAccountPoller may report that (rmErr); cachesOk: the inventory and
\* poll caches are cleared without error.
processDelete(types, pollers, chans, a, rmErr, cachesOk) ==
    LET removed == removeAccountPoller(pollers, chans, a)
    IN  IF pollers[a] = 0 /\ rmErr
        THEN [types |-> types, pollers |-> pollers, chans |-> chans, err |-> TRUE]
        ELSE IF types[a] = "none" \/ ~cachesOk
        THEN [types |-> types, pollers |-> removed.pollers,
              chans |-> removed.chans, err |-> TRUE]
        ELSE [types |-> [types EXCEPT ![a] = "none"],
              pollers |-> removed.pollers, chans |-> removed.chans,
              err |-> FALSE]

\* updatePendingSyncCountAndStatus without its test of the count.
PendingAfterUnguarded(n) == n - 1

\* updatePendingSyncCountAndStatus.
PendingAfter(n) == IF n > 0 THEN n - 1 ELSE n

\* Start: the accounts listed are pending, the sync status is set when
\* there is none, and the reconciles may begin.
StartStep(listed) ==
    /\ ~initialized
    /\ pendingSyncCount' = Cardinality(listed)
    /\ cpaSynced' = (cpaSynced \/ Cardinality(listed) = 0)
    /\ initialized' = TRUE
    /\ acctOp' = [op |-> "start", listed |-> listed]
    /\ UNCHANGED <<accountProviderType, accPollers, pollChans>>

Start(listed) ==
    /\ StartStep(listed)
    /\ UNCHANGED notAccount

\* Reconcile of account a that finds the account, processCreateOrUpdate
\* returning no error: the pending count goes down.  A reconcile waits
\* until the controller is initialized.
ReconcileAppliedStep(a, ces) ==
    /\ initialized
    /\ \E cu \in {processCreateOrUpdate(accountProviderType, accPollers, pollChans, a, TRUE, TRUE, ces)} :
          /\ Len(cu.chans) <= MaxChannels
          /\ accountProviderType' = cu.types
          /\ accPollers' = cu.pollers
          /\ pollChans' = cu.chans
          /\ acctOp' = [op |-> "createOrUpdate", acct |-> a, err |-> FALSE, reached |-> TRUE, exists |-> cu.exists, ces |-> ces, pending |-> pendingSyncCount]
    /\ pendingSyncCount' = PendingAfter(pendingSyncCount)
    /\ cpaSynced' = (cpaSynced \/ (pendingSyncCount > 0 /\ PendingAfter(pendingSyncCount) = 0))
    /\ UNCHANGED initialized

ReconcileApplied(a, ces) ==
    /\ ReconcileAppliedStep(a, ces)
    /\ UNCHANGED notAccount

\* Reconcile of account a that finds the account, processCreateOrUpdate
\* returning an error before it reaches the poller: processDelete runs and
\* its error is dropped.
ReconcileFailedStep(a, typeOk, rmErr, cachesOk) ==
    /\ initialized
    /\ \E cu \in {processCreateOrUpdate(accountProviderType, accPollers, pollChans, a, typeOk, FALSE, "none")} :
       \E res \in {processDelete(cu.types, cu.pollers, cu.chans, a, rmErr, cachesOk)} :
          /\ accountProviderType' = res.types
          /\ accPollers' = res.pollers
          /\ pollChans' = res.chans
          /\ acctOp' = [op |-> "createOrUpdate", acct |-> a, err |-> TRUE, reached |-> FALSE, exists |-> FALSE, ces |-> "none"]
    /\ UNCHANGED <<pendingSyncCount, cpaSynced, initialized>>

ReconcileFailed(a, typeOk, rmErr, cachesOk) ==
    /\ ReconcileFailedStep(a, typeOk, rmErr, cachesOk)
    /\ UNCHANGED notAccount

\* Reconcile of account a that does not find the account: processDelete.
ReconcileNotFoundStep(a, rmErr, cachesOk) ==
    /\ initialized
    /\ \E res \in {processDelete(accountProviderType, accPollers, pollChans, a, rmErr, cachesOk)} :
          /\ accountProviderType' = res.types
          /\ accPollers' = res.pollers
          /\ pollChans' = res.chans
          /\ acctOp' = [op |-> "delete", acct |-> a, err |-> res.err]
    /\ UNCHANGED <<pendingSyncCount, cpaSynced, initialized>>

ReconcileNotFound(a, rmErr, cachesOk) ==
    /\ ReconcileNotFoundStep(a, rmErr, cachesOk)
    /\ UNCHANGED notAccount

\* wait.Until returns: a polling goroutine whose channel is closed ends.
PollingStopsStep(c) ==
    /\ c \in DOMAIN pollChans
    /\ pollChans[c].closed
    /\ pollChans[c].tasks > 0
    /\ pollChans' = [pollChans EXCEPT ![c].tasks = @ - 1]
    /\ UNCHANGED <<accountProviderType, accPollers, pendingSyncCount, cpaSynced, initialized, acctOp>>

PollingStops(c) ==
    /\ PollingStopsStep(c)
    /\ UNCHANGED notAccount

\* After SetupWithManager: no account known, Start not run yet.
InitAccount ==
    /\ mutex = "free"
    /\ IdleModify
    /\ IdleStart
    /\ IdleInventory
    /\ IdleDesc
    /\ IdleRules
    /\ IdleMembers
    /\ IdleAdapter
    /\ IdleCache
    /\ IdleSync
    /\ IdleTracker
    /\ accountProviderType = [a \in Accounts |-> "none"]
    /\ accPollers = [a \in Accounts |-> 0]
    /\ pollChans = <<>>
    /\ pendingSyncCount = 0
    /\ cpaSynced = FALSE
    /\ initialized = FALSE
    /\ acctOp = [op |-> "none"]

NextAccount ==
    \/ \E listed \in SUBSET Accounts : Start(listed)
    \/ \E a \in Accounts, ces \in CesListings : ReconcileApplied(a, ces)
    \/ \E a \in Accounts, typeOk \in BOOLEAN, rmErr \in BOOLEAN, cachesOk \in BOOLEAN : ReconcileFailed(a, typeOk, rmErr, cachesOk)
    \/ \E a \in Accounts, rmErr \in BOOLEAN, cachesOk \in BOOLEAN : ReconcileNotFound(a, rmErr, cachesOk)
    \/ \E c \in 1..MaxChannels : PollingStops(c)

SpecAccount == InitAccount /\ [][NextAccount]_vars

(***************************************************************************)
(* The same controller with a record of what became of the accounts that   *)
(* Start listed: whether a reconcile of the account has applied it without *)
(* an error, or has found it deleted.                                      *)
(***************************************************************************)

\* An account's outcome once a reconcile has found it deleted.
FoundDeleted(o) == IF o = "applied" THEN o ELSE "deleted"

StartRecorded(listed) ==
    /\ StartStep(listed)
    /\ cpaListed' = listed
    /\ UNCHANGED cpaOutcome
    /\ UNCHANGED notStartup

AppliedRecorded(a, ces) ==
    /\ ReconcileAppliedStep(a, ces)
    /\ cpaOutcome' = [cpaOutcome EXCEPT ![a] = "applied"]
    /\ UNCHANGED cpaListed
    /\ UNCHANGED notStartup

FailedRecorded(a, typeOk, rmErr, cachesOk) ==
    /\ ReconcileFailedStep(a, typeOk, rmErr, cachesOk)
    /\ UNCHANGED startVars
    /\ UNCHANGED notStartup

NotFoundRecorded(a, rmErr, cachesOk) ==
    /\ ReconcileNotFoundStep(a, rmErr, cachesOk)
    /\ cpaOutcome' = [cpaOutcome EXCEPT ![a] = FoundDeleted(@)]
    /\ UNCHANGED cpaListed
    /\ UNCHANGED notStartup

PollingStopsRecorded(c) ==
    /\ PollingStopsStep(c)
    /\ UNCHANGED startVars
    /\ UNCHANGED notStartup

InitStartup == InitAccount

NextStartup ==
    \/ \E listed \in SUBSET Accounts : StartRecorded(listed)
    \/ \E a \in Accounts, ces \in CesListings : AppliedRecorded(a, ces)
    \/ \E a \in Accounts, typeOk \in BOOLEAN, rmErr \in BOOLEAN, cachesOk \in BOOLEAN : FailedRecorded(a, typeOk, rmErr, cachesOk)
    \/ \E a \in Accounts, rmErr \in BOOLEAN, cachesOk \in BOOLEAN : NotFoundRecorded(a, rmErr, cachesOk)
    \/ \E c \in 1..MaxChannels : PollingStopsRecorded(c)

SpecStartup == InitStartup /\ [][NextStartup]_vars

\* The manager runs Start, and a polling goroutine whose channel is closed
\* returns; a reconcile runs when an event asks for it.
SpecStartupFair ==
    /\ SpecStartup
    /\ WF_vars(\E listed \in SUBSET Accounts : StartRecorded(listed))
    /\ WF_vars(\E c \in 1..MaxChannels : PollingStopsRecorded(c))

(***************************************************************************)
(* The default security group cache, access by access.  The member update  *)
(* and the delete lock the mutex, call updateSecurityGroupMembers, which   *)
(* looks the VPC's default group up itself and then starts one goroutine   *)
(* per network interface to modify; a goroutine whose interface is left    *)
(* with no group looks the default group up again.  A lookup reads the     *)
(* map and, on a miss, asks the cloud and writes the map.                  *)
(***************************************************************************)
\* Network interfaces one call modifies.
MaxModify == 2

\* The goroutines of a call: 0 is the caller's own, the others modify one
\* network interface each.
Workers == 0..MaxModify

\* What a per-NIC goroutine is given: an empty set of groups (it looks the
\* default group up) or some groups.
ModifyPlans == UNION {[1..n -> {"lookup", "modify"}] : n \in 0..MaxModify}

\* A plausible slip: the operation runs without waiting for the mutex.
CanLockAlways(m) == TRUE

\* mutex.Lock() returns when the mutex is free.
CanLock(m) == m = "free"

\* Where goroutine w of caller t is.
WorkerPc(t, w) == IF w = 0 THEN umPc[t] ELSE IF w \in DOMAIN nicWorker[t] THEN nicWorker[t][w] ELSE "none"

\* Goroutine w of caller t moves to p.
WorkerGoes(t, w, p) ==
    IF w = 0
    THEN umPc' = [umPc EXCEPT ![t] = p] /\ UNCHANGED nicWorker
    ELSE nicWorker' = [nicWorker EXCEPT ![t][w] = p] /\ UNCHANGED umPc

\* An access of the map by goroutine w of caller t.
Access(t, w, kind) == [caller |-> t, worker |-> w, kind |-> kind]

\* The kind of goroutine, for the log.
WorkerKind(w) == IF w = 0 THEN "caller" ELSE "nic"

\* UpdateSecurityGroupMembers or DeleteSecurityGroup is called and reaches
\* mutex.Lock().
MemberEnter(t) ==
    /\ umPc[t] = "idle"
    /\ umPc' = [umPc EXCEPT ![t] = "lock"]
    /\ UNCHANGED <<mutex, defaultSgCached, cacheAccess, nicWorker, cacheLog>>
    /\ UNCHANGED notCache

\* mutex.Lock() returns; updateSecurityGroupMembers is reached (or the
\* call returns before it, when the group is not found in the cloud).
MemberLocked(t, reached) ==
    /\ umPc[t] = "lock"
    /\ CanLock(mutex)
    /\ mutex' = "held"
    /\ umPc' = [umPc EXCEPT ![t] = IF reached THEN "lookup" ELSE "failed"]
    /\ UNCHANGED <<defaultSgCached, cacheAccess, nicWorker, cacheLog>>
    /\ UNCHANGED notCache

\* getVpcDefaultSecurityGroupID: the read of the map starts.
LookupStarts(t, w) ==
    /\ WorkerPc(t, w) = "lookup"
    /\ WorkerGoes(t, w, "reading")
    /\ cacheAccess' = cacheAccess \cup {Access(t, w, "read")}
    /\ cacheLog' = cacheLog \cup {[by |-> WorkerKind(w), kind |-> "read"]}
    /\ UNCHANGED <<mutex, defaultSgCached>>
    /\ UNCHANGED notCache

\* The read ends: found, the lookup returns; not found, the cloud is asked.
LookupRead(t, w) ==
    /\ WorkerPc(t, w) = "reading"
    /\ WorkerGoes(t, w, IF defaultSgCached THEN "got" ELSE "fetch")
    /\ cacheAccess' = cacheAccess \ {Access(t, w, "read")}
    /\ UNCHANGED <<mutex, defaultSgCached, cacheLog>>
    /\ UNCHANGED notCache

\* The cloud answers: on an error the lookup returns it, else the write of
\* the map starts.
LookupFetched(t, w, ok) ==
    /\ WorkerPc(t, w) = "fetch"
    /\ WorkerGoes(t, w, IF ok THEN "writing" ELSE "failed")
    /\ cacheAccess' = IF ok THEN cacheAccess \cup {Access(t, w, "write")} ELSE cacheAccess
    /\ cacheLog' = IF ok THEN cacheLog \cup {[by |-> WorkerKind(w), kind |-> "write"]} ELSE cacheLog
    /\ UNCHANGED <<mutex, defaultSgCached>>
    /\ UNCHANGED notCache

\* The write ends and the lookup returns.
LookupStored(t, w) ==
    /\ WorkerPc(t, w) = "writing"
    /\ WorkerGoes(t, w, "got")
    /\ defaultSgCached' = TRUE
    /\ cacheAccess' = cacheAccess \ {Access(t, w, "write")}
    /\ UNCHANGED <<mutex, cacheLog>>
    /\ UNCHANGED notCache

\* processNetworkInterfaceModifyConcurrently: one goroutine per network
\* interface to modify.
ModifyConcurrently(t, plan) ==
    /\ umPc[t] = "got"
    /\ umPc' = [umPc EXCEPT ![t] = "wait"]
    /\ nicWorker' = [nicWorker EXCEPT ![t] = plan]
    /\ UNCHANGED <<mutex, defaultSgCached, cacheAccess, cacheLog>>
    /\ UNCHANGED notCache

\* updateNetworkInterfaceSecurityGroups with the groups in hand: the
\* interface is modified and the result sent.
NicModified(t, w) ==
    /\ w \in DOMAIN nicWorker[t]
    /\ nicWorker[t][w] \in {"got", "modify"}
    /\ nicWorker' = [nicWorker EXCEPT ![t][w] = "done"]
    /\ UNCHANGED <<mutex, defaultSgCached, cacheAccess, umPc, cacheLog>>
    /\ UNCHANGED notCache

\* The call returns, after every goroutine has sent its result if any was
\* started, and the deferred mutex.Unlock() runs.
MemberReturn(t) ==
    /\ \/ umPc[t] = "failed"
       \/ /\ umPc[t] = "wait"
          /\ \A w \in DOMAIN nicWorker[t] : nicWorker[t][w] \in {"done", "failed"}
    /\ mutex' = "free"
    /\ umPc' = [umPc EXCEPT ![t] = "idle"]
    /\ nicWorker' = [nicWorker EXCEPT ![t] = <<>>]
    /\ UNCHANGED <<defaultSgCached, cacheAccess, cacheLog>>
    /\ UNCHANGED notCache

\* The process has started: the map is empty.
InitCache ==
    /\ mutex = "free"
    /\ IdleModify
    /\ IdleStart
    /\ IdleInventory
    /\ IdleDesc
    /\ IdleRules
    /\ IdleMembers
    /\ IdleAdapter
    /\ IdleAccounts
    /\ IdleSync
    /\ IdleTracker
    /\ cacheAccess = {}
    /\ umPc = [t \in Callers |-> "idle"]
    /\ nicWorker = [t \in Callers |-> <<>>]
    /\ cacheLog = {}

NextCache ==
    \E t \in Callers :
       \/ MemberEnter(t)
       \/ \E reached \in BOOLEAN : MemberLocked(t, reached)
       \/ \E w \in Workers : LookupStarts(t, w)
       \/ \E w \in Workers : LookupRead(t, w)
       \/ \E w \in Workers, ok \in BOOLEAN : LookupFetched(t, w, ok)
       \/ \E w \in Workers : LookupStored(t, w)
       \/ \E plan \in ModifyPlans : ModifyConcurrently(t, plan)
       \/ \E w \in Workers : NicModified(t, w)
       \/ MemberReturn(t)

SpecCache == InitCache /\ [][NextCache]_vars

(***************************************************************************)
(* Rule descriptions.  A string is a sequence of symbols; the three keys   *)
(* are one symbol each.  GenerateCloudDescription splits the namespaced    *)
(* name at "/", ExtractCloudDescription splits the description at "," and  *)
(* each part, trimmed, at ":".                                             *)
(***************************************************************************)
\* The longest policy namespace, policy name and group name.
MaxNameLen == 2

\* The strings of at most n symbols of chars.
Strings(chars, n) == UNION {[1..k -> chars] : k \in 0..n}

\* Symbols of a policy's namespace and name, and of a group's name (the
\* name of a group made from a namespaced Group holds a "/").
NameChars == {"a", "b"}

GroupChars == {"a", "/"}

\* The namespaced names handed to GenerateCloudDescription: any number of
\* "/" among the symbols.
NamespacedNames == Strings(NameChars \cup {"/"}, 2 * MaxNameLen + 1)

GroupNames == Strings(GroupChars, MaxNameLen) \ {<<>>}

\* The keys of a description.
Name == <<"name">>

Namespace == <<"namespace">>

AppliedToGroup == <<"appliedToGroup">>

RECURSIVE Split(_, _)
\* strings.Split(s, sep): the parts between the separators, empty parts
\* kept.
Split(s, sep) == IF \A i \in DOMAIN s : s[i] # sep THEN <<s>> ELSE LET i == CHOOSE k \in DOMAIN s : s[k] = sep /\ \A j \in 1..(k - 1) : s[j] # sep IN <<SubSeq(s, 1, i - 1)>> \o Split(SubSeq(s, i + 1, Len(s)), sep)

RECURSIVE TrimSpace(_)
\* strings.TrimSpace(s).
TrimSpace(s) == IF s # <<>> /\ s[1] = " " THEN TrimSpace(Tail(s)) ELSE IF s # <<>> /\ s[Len(s)] = " " THEN TrimSpace(SubSeq(s, 1, Len(s) - 1)) ELSE s

\* CloudRuleDescription.String(): "name:<p>,namespace:<ns>,appliedToGroup:<at>".
DescriptionString(desc) == Name \o <<":">> \o desc.name \o <<",">> \o Namespace \o <<":">> \o desc.namespace \o <<",">> \o AppliedToGroup \o <<":">> \o desc.appliedToGroup

\* A plausible slip: the two tokens of the namespaced name change places.
GenerateCloudDescriptionSwapped(namespacedName, appliedToGroup) == LET tokens == Split(namespacedName, "/") IN IF Len(tokens) # 2 THEN [desc |-> <<>>, err |-> TRUE] ELSE [desc |-> DescriptionString([name |-> tokens[1], namespace |-> tokens[2], appliedToGroup |-> appliedToGroup]), err |-> FALSE]

\* GenerateCloudDescription: an error unless the namespaced name has two
\* tokens; else the description of (tokens[1], tokens[0], appliedToGroup).
GenerateCloudDescription(namespacedName, appliedToGroup) == LET tokens == Split(namespacedName, "/") IN IF Len(tokens) # 2 THEN [desc |-> <<>>, err |-> TRUE] ELSE [desc |-> DescriptionString([name |-> tokens[2], namespace |-> tokens[1], appliedToGroup |-> appliedToGroup]), err |-> FALSE]

\* descMap[key] after the loop over the parts: the value of the last part
\* that has two tokens and this key, "" when there is none.
DescMapAt(parts, key) == LET kv(i) == Split(TrimSpace(parts[i]), ":") hits == {i \in DOMAIN parts : Len(kv(i)) = 2 /\ kv(i)[1] = key} IN IF hits = {} THEN <<>> ELSE kv(CHOOSE i \in hits : \A j \in hits : j <= i)[2]

\* No description extracted.
NoDescription == [ok |-> FALSE, name |-> <<>>, namespace |-> <<>>, appliedToGroup |-> <<>>]

\* ExtractCloudDescription of a pointer: nil, or a string.
ExtractCloudDescription(isNil, description) == LET tempSlice == Split(description, ",") name == DescMapAt(tempSlice, Name) namespace == DescMapAt(tempSlice, Namespace) group == DescMapAt(tempSlice, AppliedToGroup) IN IF isNil \/ Len(tempSlice) # 3 THEN NoDescription ELSE IF name = <<>> \/ namespace = <<>> \/ group = <<>> THEN NoDescription ELSE [ok |-> TRUE, name |-> name, namespace |-> namespace, appliedToGroup |-> group]

\* GenerateCloudDescription is called with the arguments at hand.
GenerateCall ==
    /\ descOp.op = "args"
    /\ \E res \in {GenerateCloudDescription(descOp.namespacedName, descOp.appliedToGroup)} :
          descOp' = [op |-> "generate", namespacedName |-> descOp.namespacedName, appliedToGroup |-> descOp.appliedToGroup, desc |-> res.desc, err |-> res.err]
    /\ UNCHANGED notDesc

\* ExtractCloudDescription is called on the description just generated, as
\* the cloud hands it back with a rule, or on nil.
ExtractCall(isNil) ==
    /\ descOp.op = "generate"
    /\ ~descOp.err
    /\ \E res \in {ExtractCloudDescription(isNil, descOp.desc)} :
          descOp' = [op |-> "extract", namespacedName |-> descOp.namespacedName, appliedToGroup |-> descOp.appliedToGroup, desc |-> descOp.desc, isNil |-> isNil, ret |-> res]
    /\ UNCHANGED notDesc

\* Any namespaced name and any group name are at hand.
InitDescription ==
    /\ mutex = "free"
    /\ IdleModify
    /\ IdleStart
    /\ IdleInventory
    /\ IdleRules
    /\ IdleMembers
    /\ IdleAdapter
    /\ IdleAccounts
    /\ IdleCache
    /\ IdleSync
    /\ IdleTracker
    /\ \E namespacedName \in NamespacedNames, appliedToGroup \in GroupNames :
          descOp = [op |-> "args", namespacedName |-> namespacedName, appliedToGroup |-> appliedToGroup]

NextDescription ==
    \/ GenerateCall
    \/ \E isNil \in BOOLEAN : ExtractCall(isNil)

SpecDescription == InitDescription /\ [][NextDescription]_vars

(***************************************************************************)
(* The VM inventory.  BuildVmCache is handed the VMs an account's poll      *)
(* discovered: it deletes the account's cached VMs that are not among      *)
(* them, then creates, updates or replaces the others.  The store is       *)
(* keyed by namespace/name; the VMs of an account are found through the    *)
(* index on the account labels of the objects.                             *)
(***************************************************************************)
\* The accounts that poll.
PollAccounts == {"acc1", "acc2"}

\* VirtualMachineStatus: the Agented flag and the rest of it.
VmStatuses == [state : {"running", "stopped"}, agented : BOOLEAN]

\* A VirtualMachine of account a with status st.
VmObject(a, st) == [present |-> TRUE, account |-> a, status |-> st]

\* The maps a poll can hand over for account a: a VM or none under each
\* name.
DiscoveredMaps(a) == [VmNames -> {NoVm} \cup {VmObject(a, st) : st \in VmStatuses}]

\* vmStore.GetByIndex on the account index.
VmsInCache(store, a) == {n \in VmNames : store[n].present /\ store[n].account = a}

\* The first loop on name n: a cached VM of the account that is not in the
\* map is deleted, unless the store refuses.
DeleteMissing(store, a, discovered, n, storeErr) == IF n \in VmsInCache(store, a) /\ ~discovered[n].present THEN [obj |-> IF storeErr THEN store[n] ELSE NoVm, calls |-> <<"delete">>] ELSE [obj |-> store[n], calls |-> <<>>]

\* A plausible slip: a changed Agented flag is written by an update like
\* any other change.
ReplaceOrUpdateAlwaysUpdates(cached, vm, storeErr) == [obj |-> IF storeErr THEN cached ELSE vm, calls |-> <<"update">>]

\* A cached VM whose status differs: Delete then Create when the Agented
\* flag differs (no Create after a failed Delete), Update otherwise.
ReplaceOrUpdate(cached, vm, storeErr) == IF cached.status.agented # vm.status.agented THEN [obj |-> IF storeErr THEN cached ELSE vm, calls |-> IF storeErr THEN <<"delete">> ELSE <<"delete", "create">>] ELSE [obj |-> IF storeErr THEN cached ELSE vm, calls |-> <<"update">>]

\* The second loop on a VM of the map: Create when the key is not in the
\* store, nothing when the cached status is deeply equal.
AddOrUpdate(cached, vm, storeErr) == IF ~cached.present THEN [obj |-> IF storeErr THEN cached ELSE vm, calls |-> <<"create">>] ELSE IF cached.status = vm.status THEN [obj |-> cached, calls |-> <<>>] ELSE ReplaceOrUpdate(cached, vm, storeErr)

\* BuildVmCache on name n: the first loop, then the second.
BuildVm(store, a, discovered, n, storeErr) == LET d == DeleteMissing(store, a, discovered, n, storeErr) u == AddOrUpdate(d.obj, discovered[n], storeErr) IN IF discovered[n].present THEN [obj |-> u.obj, calls |-> d.calls \o u.calls] ELSE d

\* BuildVmCache(discoveredVmMap, namespacedName).  storeErr: the store
\* refuses the writes of this call.
BuildVmCache(a, discovered, storeErr) ==
    /\ vmStore' = [n \in VmNames |-> BuildVm(vmStore, a, discovered, n, storeErr).obj]
    /\ vmOp' = [op |-> "build", account |-> a, discovered |-> discovered, storeErr |-> storeErr, calls |-> [n \in VmNames |-> BuildVm(vmStore, a, discovered, n, storeErr).calls]]
    /\ UNCHANGED notInventory

\* InitInventory: an empty store.
InitInventory ==
    /\ mutex = "free"
    /\ IdleModify
    /\ IdleStart
    /\ IdleRules
    /\ IdleMembers
    /\ IdleAdapter
    /\ IdleAccounts
    /\ IdleCache
    /\ IdleDesc
    /\ IdleSync
    /\ IdleTracker
    /\ vmStore = [n \in VmNames |-> NoVm]
    /\ vmOp = [op |-> "none"]

NextInventory == \E a \in PollAccounts, storeErr \in BOOLEAN : \E discovered \in DiscoveredMaps(a) : BuildVmCache(a, discovered, storeErr)

SpecInventory == InitInventory /\ [][NextInventory]_vars

(***************************************************************************)
(* processNetworkInterfaceModifyConcurrently: one goroutine per network    *)
(* interface sends the result of its modify call on the unbuffered channel *)
(* ch, one goroutine closes ch when the WaitGroup's counter is zero, and   *)
(* the caller receives until ch is closed.                                 *)
(***************************************************************************)
\* A plausible slip: err = e in place of the append.
ErrAfterOverwritten(err, n, failed) == IF failed THEN {n} ELSE {}

\* The body of the range loop: a result that is not nil is appended.
ErrAfter(err, n, failed) == IF failed THEN err \cup {n} ELSE err

\* make(chan error), wg.Add(len(map)), go of the closing goroutine, go of
\* one goroutine per network interface of the map.
ModifyCall(nics) ==
    /\ modPc = "idle"
    /\ networkInterfacesToModify' = nics
    /\ wg' = Cardinality(nics)
    /\ modWorker' = [n \in ModifyNics |->
                        IF n \in nics THEN [NoWorker EXCEPT !.pc = "started"]
                        ELSE NoWorker]
    /\ modPc' = "range"
    /\ UNCHANGED <<chClosed, modErr>>
    /\ UNCHANGED notModify

\* A goroutine's updateNetworkInterfaceSecurityGroups returns; its result
\* is the value the goroutine has to send.
ModifyReturns(n, failed) ==
    /\ modWorker[n].pc = "started"
    /\ modWorker' = [modWorker EXCEPT ![n] = [pc |-> "sending", calls |-> @.calls + 1, failed |-> failed]]
    /\ UNCHANGED <<networkInterfacesToModify, modPc, wg, chClosed, modErr>>
    /\ UNCHANGED notModify

\* ch is unbuffered: the send of a goroutine and a receive of the caller
\* happen together.
Receive(n) ==
    /\ modPc = "range"
    /\ ~chClosed
    /\ modWorker[n].pc = "sending"
    /\ modErr' = ErrAfter(modErr, n, modWorker[n].failed)
    /\ modWorker' = [modWorker EXCEPT ![n].pc = "sent"]
    /\ UNCHANGED <<networkInterfacesToModify, modPc, wg, chClosed>>
    /\ UNCHANGED notModify

\* The deferred wg.Done of a goroutine whose send went through.
Done(n) ==
    /\ modWorker[n].pc = "sent"
    /\ wg' = wg - 1
    /\ modWorker' = [modWorker EXCEPT ![n].pc = "done"]
    /\ UNCHANGED <<networkInterfacesToModify, modPc, chClosed, modErr>>
    /\ UNCHANGED notModify

\* wg.Wait returns in the closing goroutine, which closes ch.
WaitAndClose ==
    /\ modPc = "range"
    /\ ~chClosed
    /\ wg = 0
    /\ chClosed' = TRUE
    /\ UNCHANGED <<networkInterfacesToModify, modPc, modWorker, wg, modErr>>
    /\ UNCHANGED notModify

\* The range over ch ends when ch is closed; err is returned.
ModifyReturn ==
    /\ modPc = "range"
    /\ chClosed
    /\ modPc' = "returned"
    /\ UNCHANGED <<networkInterfacesToModify, modWorker, wg, chClosed, modErr>>
    /\ UNCHANGED notModify

InitModify ==
    /\ mutex = "free"
    /\ IdleModify
    /\ IdleStart
    /\ IdleInventory
    /\ IdleDesc
    /\ IdleRules
    /\ IdleMembers
    /\ IdleAdapter
    /\ IdleAccounts
    /\ IdleCache
    /\ IdleSync
    /\ IdleTracker

NextModify ==
    \/ \E nics \in SUBSET ModifyNics : ModifyCall(nics)
    \/ \E n \in ModifyNics, failed \in BOOLEAN : ModifyReturns(n, failed)
    \/ \E n \in ModifyNics : Receive(n)
    \/ \E n \in ModifyNics : Done(n)
    \/ WaitAndClose
    \/ ModifyReturn

\* The Go scheduler runs every goroutine that can run, and a modify call
\* to the cloud returns.
SpecModify ==
    /\ InitModify
    /\ [][NextModify]_vars
    /\ WF_vars(\E nics \in SUBSET ModifyNics : ModifyCall(nics))
    /\ \A n \in ModifyNics :
          /\ WF_vars(\E failed \in BOOLEAN : ModifyReturns(n, failed))
          /\ WF_vars(Receive(n))
          /\ WF_vars(Done(n))
    /\ WF_vars(WaitAndClose)
    /\ WF_vars(ModifyReturn)

(***************************************************************************)
(* Properties of UpdateSecurityGroupRules.                                 *)
(***************************************************************************)
ForwardLog == SelectSeq(cloudLog, LAMBDA e : e.phase = "forward")

RollbackLog == SelectSeq(cloudLog, LAMBDA e : e.phase = "rollback")

CallSig(e) == [op |-> e.op, dir |-> e.dir, rules |-> e.rules]

\* The call that forward step k issues, and the call that undoes it.
ForwardCall(k) ==
    [op |-> CloudOp(StepIsDelete(k)), dir |-> StepDir(k), rules |-> StepRules(k)]

InverseCall(k) ==
    [op |-> CloudOp(~StepIsDelete(k)), dir |-> StepDir(k), rules |-> StepRules(k)]

\* The step a logged call belongs to, read off its operation and direction.
StepOfForward(e) ==
    CHOOSE k \in 0..3 : CloudOp(StepIsDelete(k)) = e.op /\ StepDir(k) = e.dir

StepOfInverse(e) ==
    CHOOSE k \in 0..3 : CloudOp(~StepIsDelete(k)) = e.op /\ StepDir(k) = e.dir

StepErrors == {"step0", "step1", "step2", "step3"}

FailedStep == CHOOSE k \in 0..3 : StepPc(k) = ruErr

\* The steps before k that issued a call.
CompletedSteps(k) == {j \in 0..(k - 1) : StepRules(j) # {}}

RuleUpdateFailed == ruPc = "returned" /\ ruErr \in StepErrors

\* C1: the forward calls are revoke-ingress(rmIngress), authorize-ingress
\* (addIngress), revoke-egress(rmEgress), authorize-egress(addEgress) in this
\* order; a call is issued only when every earlier step with rules has been
\* called and every earlier call succeeded; no call carries an empty list;
\* a successful return has issued a call for every non-empty list.
C1_ForwardOrder ==
    LET fw == ForwardLog IN
    /\ \A i \in 1..Len(fw) :
          /\ fw[i].rules # {}
          /\ CallSig(fw[i]) = ForwardCall(StepOfForward(fw[i]))
          /\ \A j \in 1..(i - 1) :
                StepOfForward(fw[j]) < StepOfForward(fw[i]) /\ fw[j].ok
          /\ \A k \in CompletedSteps(StepOfForward(fw[i])) :
                \E j \in 1..(i - 1) : StepOfForward(fw[j]) = k
    /\ \A i, j \in 1..Len(cloudLog) :
          cloudLog[i].phase = "rollback" /\ cloudLog[j].phase = "forward" => j < i
    /\ (ruPc = "returned" /\ ruErr = "nil") =>
          /\ \A i \in 1..Len(fw) : fw[i].ok
          /\ {StepOfForward(fw[i]) : i \in 1..Len(fw)} = CompletedSteps(4)

C1_Witness ==
    ruPc = "returned" /\ ruErr = "nil" /\ Len(cloudLog) = 4

\* C2: after a failure of step k the rollback calls are the inverse calls of
\* the completed steps, the most recently completed step first.
C2_RollbackInReverseOrder ==
    RuleUpdateFailed =>
       LET rb == RollbackLog IN
       /\ Len(rb) = Cardinality(CompletedSteps(FailedStep))
       /\ \A i \in 1..Len(rb) :
             /\ StepOfInverse(rb[i]) \in CompletedSteps(FailedStep)
             /\ CallSig(rb[i]) = InverseCall(StepOfInverse(rb[i]))
       /\ \A i, j \in 1..Len(rb) :
             i < j => StepOfInverse(rb[i]) > StepOfInverse(rb[j])

\* C3: after a failure of step k the cloud has received, after the forward
\* calls, exactly one inverse call (same rules, same direction, opposite
\* operation) for each completed step with rules, nothing for step k or a
\* later step, and no forward call of a step after k.
C3_ExactInverseCalls ==
    RuleUpdateFailed =>
       LET rb == RollbackLog
           fw == ForwardLog IN
       /\ \A j \in CompletedSteps(FailedStep) :
             Cardinality({i \in 1..Len(rb) : CallSig(rb[i]) = InverseCall(j)}) = 1
       /\ Len(rb) = Cardinality(CompletedSteps(FailedStep))
       /\ \A i \in 1..Len(rb) : StepOfInverse(rb[i]) < FailedStep
       /\ \A i \in 1..Len(fw) : StepOfForward(fw[i]) <= FailedStep
       /\ Len(cloudLog) = Len(fw) + Len(rb)
       /\ \A i \in 1..Len(cloudLog) :
             cloudLog[i].phase = "rollback" <=> i > Len(fw)

C3_Witness ==
    RuleUpdateFailed /\ ruErr = "step3" /\ Len(RollbackLog) = 3

\* The lists are pairwise disjoint, every rule to remove was in the group
\* and every rule to add was not.
DisjointPresentAbsent ==
    /\ addRules \cap rmRules = {}
    /\ {r.id : r \in rmIRule} \subseteq preIngress
    /\ {r.id : r \in rmERule} \subseteq preEgress
    /\ {r.id : r \in addIRule} \cap preIngress = {}
    /\ {r.id : r \in addERule} \cap preEgress = {}

AllRollbackSucceeded == \A i \in 1..Len(RollbackLog) : RollbackLog[i].ok

AppliedToOn(groups) == groups \cap AppliedToSGs

\* The NICs for which the call asked the cloud to drop their only
\* applied-to group.
LastAppliedToDetached ==
    {n \in DOMAIN memCalls :
        \E g \in AppliedToSGs :
           /\ AppliedToOn(preNicGroups[n]) = {g}
           /\ g \notin memCalls[n].groups}

\* C10: a modify call that takes from a NIC the only applied-to group it
\* carried asks for a set that holds the VPC default group, and no modify
\* call of UpdateSecurityGroupMembers or DeleteSecurityGroup asks for an
\* empty set.
C10_DefaultOnLastDetach ==
    /\ \A n \in LastAppliedToDetached : VpcDefaultSg \in memCalls[n].groups
    /\ \A n \in DOMAIN memCalls : memCalls[n].groups # {}
    /\ \A n \in Nics : nicGroups[n] # {}

C10_Witness ==
    \E n \in LastAppliedToDetached :
       /\ memArgs.op = "delete"
       /\ memCalls[n].ok
       /\ AddressGroupSGs \subseteq preNicGroups[n]
       /\ nicGroups[n] = AddressGroupSGs \cup {VpcDefaultSg}

(***************************************************************************)
(* Properties of the adapter's entry points.                               *)
(***************************************************************************)
\* The callers whose operation is executing for account a: past
\* mutex.Lock() and before the return, or reading the account's view.
ExecutingFor(a) ==
    {t \in Callers : thPc[t] = "running" /\ thAcct[t] = a}
    \cup {t \in Callers : a \in snapPending[t]}

\* C5: at no time are two adapter operations (CreateSecurityGroup,
\* UpdateSecurityGroupRules, UpdateSecurityGroupMembers,
\* DeleteSecurityGroup, GetEnforcedSecurity) executing for the same account.
C5_OneOperationPerAccount ==
    \A a \in Accounts : Cardinality(ExecutingFor(a)) <= 1

(***************************************************************************)
(* Properties of syncWithCloud and processBookMark.                        *)
(***************************************************************************)
CallsOf(pass, op, g) ==
    {e \in syncCalls : e.pass = pass /\ e.op = op /\ e.group = g}

Mutations == {"create", "delete", "members", "rules"}

\* What a pass reads, changes or calls of the groups.
groupVars == <<sgIndex, cloudRuleIdx, dirtyGroups, snapshot, syncCalls,
               syncPass, syncPc, syncedWithCloud, nicGroups, sgInCloud,
               sgRules>>

Min(a, b) == IF a < b THEN a ELSE b

\* C6: while fewer than npSyncReadyBookMarkCnt Bookmark events have been
\* processed, no snapshot has been read and no group has been changed or
\* called, whatever events and calls of syncWithCloud there were; an event
\* that is no Bookmark leaves the bookmark count alone and processBookMark
\* returns false for it.
C6_NoSyncBeforeBookmarks ==
    /\ [](bookmarksProcessed < npSyncReadyBookMarkCnt =>
             /\ syncPass = 0
             /\ syncCalls = {}
             /\ syncPc = "idle"
             /\ bookmarkCnt = bookmarksProcessed)
    /\ [][/\ bookmarksProcessed' < npSyncReadyBookMarkCnt =>
                 UNCHANGED groupVars
          /\ (syncPc = "idle" /\ lastEvent' \in WatchEvents \ {"Bookmark"}) =>
                 /\ bookmarkCnt' = bookmarkCnt
                 /\ UNCHANGED groupVars
                 /\ bookmarkRet' = "false"]_vars

\* One Bookmark short of the first pass, after a Bookmark, with a group in
\* the cloud that a pass would delete.
C6_Witness ==
    /\ bookmarksProcessed = npSyncReadyBookMarkCnt - 1
    /\ lastEvent = "Bookmark"
    /\ \E g \in sgInCloud : ~sgIndex[g].present

\* C7: processBookMark starts the pass exactly once, on the Bookmark that
\* brings the count to npSyncReadyBookMarkCnt; a later Bookmark starts no
\* pass and leaves the count alone.
C7_BookmarkSyncOnce ==
    /\ [](/\ bookmarkSyncs = IF bookmarksProcessed < npSyncReadyBookMarkCnt
                             THEN 0 ELSE 1
          /\ bookmarkCnt = Min(bookmarksProcessed, npSyncReadyBookMarkCnt))
    /\ [][/\ bookmarkSyncs' # bookmarkSyncs =>
                 /\ bookmarkCnt' = npSyncReadyBookMarkCnt
                 /\ bookmarkCnt = npSyncReadyBookMarkCnt - 1
                 /\ syncPass' = syncPass + 1
          /\ (/\ bookmarksProcessed' # bookmarksProcessed
              /\ bookmarksProcessed >= npSyncReadyBookMarkCnt) =>
                 /\ bookmarkCnt' = bookmarkCnt
                 /\ bookmarkRet' = "true"
                 /\ UNCHANGED groupVars]_vars

\* A Bookmark after the pass that the bookmarks started.
C7_Witness ==
    /\ bookmarksProcessed > npSyncReadyBookMarkCnt
    /\ lastEvent = "Bookmark"
    /\ bookmarkSyncs = 1

\* The contents of the running pass that were taken from the channel.
Received(g) ==
    /\ syncPass > 0
    /\ g \in DOMAIN snapshot
    /\ ~(syncPc = "contents" /\ g \in syncPending)

\* C8: a reported group without an entry in the indexer of its kind gets
\* exactly one delete and no sg.sync; a group with an entry, and a group
\* that was not reported, gets no delete; and after a delete that succeeded
\* the next pass issues no delete for the group.
C8_OrphanDeletedOnce ==
    /\ \A g \in ManagedSGs :
          /\ (Received(g) /\ ~sgIndex[g].present) =>
                /\ Cardinality(CallsOf(syncPass, "delete", g)) = 1
                /\ CallsOf(syncPass, "sync", g) = {}
          /\ ~(Received(g) /\ ~sgIndex[g].present) =>
                CallsOf(syncPass, "delete", g) = {}
    /\ \A e \in syncCalls :
          (e.op = "delete" /\ e.ok) =>
              CallsOf(e.pass + 1, "delete", e.group) = {}

\* A second pass has returned after a first pass that deleted a group.
C8_Witness ==
    /\ syncPass = 2
    /\ syncPc = "idle"
    /\ \E e \in syncCalls : e.pass = 1 /\ e.op = "delete" /\ e.ok

\* The first pass read the cloud, made only member updates, and every one
\* of them succeeded; the second pass began right after it and read the
\* cloud.
SettledFirstPass ==
    /\ syncPass = 2
    /\ syncQuietStart
    /\ \A e \in syncCalls :
          /\ e.ok
          /\ (e.pass = 1 /\ e.op \in Mutations) => e.op = "members"

\* C9: a second pass that follows the first with no event in between and
\* with the cloud as the first pass left it makes no create, delete, member
\* update or rule update.  Stated for first passes that made nothing but
\* successful member updates.
C9_SyncFixpoint ==
    SettledFirstPass =>
        \A e \in syncCalls : e.pass = 2 => e.op \notin Mutations

(***************************************************************************)
(* Properties of the member update and the delete.                         *)
(***************************************************************************)
\* The NIC is named in the member list of the call, or is attached to an
\* instance named in it.
IsMemberOfCall(n) ==
    n \in memArgs.memberNICs \/ nicAttachment[n] \in memArgs.memberVMs

UpdateReturnedNil ==
    memPc = "returned" /\ memArgs.op = "update" /\ memErr = "nil"

\* C11: after UpdateSecurityGroupMembers(group, M) has returned nil, a NIC
\* attached to an instance carries the group exactly if it is named in M
\* or attached to a VM named in M; a NIC that carried the group exactly if
\* it was a member received no modify call; and a NIC attached to no
\* instance received none, whatever the outcome of the call.
C11_MembersRealized ==
    /\ UpdateReturnedNil =>
         \A n \in Nics :
            nicAttachment[n] # "none" =>
               /\ memArgs.group \in nicGroups[n] <=> IsMemberOfCall(n)
               /\ (memArgs.group \in preNicGroups[n] <=> IsMemberOfCall(n))
                     => n \notin DOMAIN memCalls
    /\ \A n \in Nics :
          nicAttachment[n] = "none" =>
             n \notin DOMAIN memCalls /\ nicGroups[n] = preNicGroups[n]

\* A NIC is made a member through its VM, and the cloud accepts the call.
C11_Witness ==
    /\ UpdateReturnedNil
    /\ \E n \in DOMAIN memCalls :
          /\ n \notin memArgs.memberNICs
          /\ nicAttachment[n] \in memArgs.memberVMs
          /\ memArgs.group \notin preNicGroups[n]
          /\ memArgs.group \in nicGroups[n]

\* A step that is a call of DeleteSecurityGroup in which the account, the
\* service and the describe of the group by name did not fail.
DeleteCalled ==
    memPc' # memPc /\ memArgs'.op = "delete" /\ memErr' # "lookup"

\* C13: DeleteSecurityGroup on a group the cloud does not have returns nil
\* and issues no modify and no delete call; a delete made again on the
\* same group after a delete that returned nil returns nil as well.
C13_DeleteAbsentGroup ==
    [][DeleteCalled =>
          /\ memArgs'.group \notin sgInCloud =>
                /\ memErr' = "nil"
                /\ memCalls' = NoCalls
                /\ memDeleteCall' = "none"
                /\ nicGroups' = nicGroups
                /\ sgInCloud' = sgInCloud
          /\ (memPc = "returned" /\ memErr = "nil") => memErr' = "nil"]_vars

\* The delete made again on a group the first delete left absent.
C13_Witness ==
    /\ memPc = "repeated"
    /\ memArgs.op = "delete"
    /\ memArgs.group \notin sgInCloud
    /\ memErr = "nil"
    /\ memCalls = NoCalls
    /\ memDeleteCall = "none"

DeleteReturned == memPc # "idle" /\ memArgs.op = "delete"

\* The detach of the delete failed: the describe of the NICs, the lookup of
\* the default group, or a modify call.
DetachFailed == memErr \in {"describeNics", "defaultSg", "modify"}

\* The order of the delete: the cloud delete is issued only after every
\* modify call was accepted, a failed detach is returned without a delete
\* call, and a modify call never asks for the group or for an empty set.
DeleteOnlyAfterDetach ==
    DeleteReturned =>
       /\ memDeleteCall # "none" => \A n \in DOMAIN memCalls : memCalls[n].ok
       /\ DetachFailed => memDeleteCall = "none" /\ memArgs.group \in sgInCloud
       /\ \A n \in DOMAIN memCalls :
             /\ memArgs.group \notin memCalls[n].groups
             /\ memCalls[n].groups # {}
             /\ memCalls[n].groups \cap preNicGroups[n] = {}
                   => VpcDefaultSg \in memCalls[n].groups

\* C14: DeleteSecurityGroup on an existing group detaches the group from
\* every NIC that carries it, with the default group for a NIC left with
\* nothing, and issues the cloud delete only after that; a failed detach
\* is returned with no delete call issued.
C14_DetachBeforeDelete ==
    /\ DeleteOnlyAfterDetach
    /\ (DeleteReturned /\ memDeleteCall # "none") =>
          \A n \in Nics : memArgs.group \notin nicGroups[n]

(***************************************************************************)
(* Properties of the nudge at the end of syncWithCloud.                    *)
(***************************************************************************)
\* The adapter calls a step records.
NewCalls == syncCalls' \ syncCalls

\* The step handles resource n of rscWithUnknownSGs.
Nudged(n) == syncPc = "nudge" /\ n \in syncPending /\ n \notin syncPending'

\* The group the nudge of a resource updates: one appliedTo group of the
\* resource's tracker, none when there is no tracker.
NudgeUpdatesOneTrackedGroup ==
    [][\A n \in Nics :
          Nudged(n) =>
             /\ TrackerAppliedToSGs(n) = {} => NewCalls = {}
             /\ Cardinality(NewCalls) <= 1
             /\ \A e \in NewCalls :
                   /\ e.op = "members"
                   /\ e.group \in TrackerAppliedToSGs(n)]_vars

\* C12: for a resource reported with other groups attached, syncWithCloud
\* updates one appliedTo group of the resource's tracker, none when there
\* is no tracker, and once that update has succeeded the resource's NIC
\* carries no group but the controller's.
C12_NudgeDetachesForeign ==
    /\ NudgeUpdatesOneTrackedGroup
    /\ [][\A n \in Nics :
             Nudged(n) =>
                \A e \in NewCalls :
                   e.ok => nicGroups'[n] \subseteq ManagedSGs]_vars

(***************************************************************************)
(* Properties of the tracker and of the sweep of dirty trackers.           *)
(***************************************************************************)
\* The tracker's own state and its place in the index.
trackerState == <<appliedToSGs, prevAppliedToSGs, dirty, trackerIndexed>>

\* A step that is a call of update / a run of the sweep.  A step that
\* changes nothing satisfies what the properties ask of such a step.
UpdateCalled == trkOp'.op = "update"

Swept == trkOp'.op = "sweep"

\* C15: update(sg, isDelete) with isDelete unset for a group already in
\* appliedToSGs, or set for a group not in it, returns nil and leaves
\* appliedToSGs, prevAppliedToSGs, dirty and the index as they are; the
\* same update made a second time changes nothing.
C15_UpdateIdempotent ==
    [][UpdateCalled =>
          /\ ((trkOp'.sg \in appliedToSGs) # trkOp'.isDelete) =>
                trkOp'.ret = "nil" /\ UNCHANGED trackerState
          /\ (/\ trkOp.op = "update"
              /\ trkOp.sg = trkOp'.sg
              /\ trkOp.isDelete = trkOp'.isDelete) =>
                UNCHANGED trackerState]_vars

\* A group is added again to a tracker that holds it and is not dirty.
C15_Witness ==
    /\ trkOp.op = "update"
    /\ trkOp.dup
    /\ ~trkOp.isDelete
    /\ trkOp.sg \in appliedToSGs
    /\ dirty = "false"
    /\ trackerIndexed

\* C16: no key is in both appliedToSGs and prevAppliedToSGs.
C16_AppliedPrevDisjoint == appliedToSGs \cap prevAppliedToSGs = {}

\* One group was moved to prevAppliedToSGs and survived a sweep there, the
\* other is in appliedToSGs.
C16_Witness ==
    /\ trkOp.op = "sweep"
    /\ trkOp.wasDirty
    /\ appliedToSGs # {}
    /\ prevAppliedToSGs # {}

\* The step changes one of the tracker's two maps.
MapsChanged ==
    appliedToSGs' # appliedToSGs \/ prevAppliedToSGs' # prevAppliedToSGs

C18_WriteFailureKeepsDirty ==
    [][(Swept /\ trkOp'.writeFailed) =>
          trackerIndexed' /\ dirty' = "true"]_vars

\* C19: the sweep removes a tracker from the index only if it was dirty,
\* its setter returned no error and both maps are empty after the status
\* computation; a tracker with a non-empty map stays in the index; a
\* tracker whose setter failed stays in the index and stays dirty.
C19_TrackerRemoval ==
    [][(Swept /\ trackerIndexed) =>
          /\ ~trackerIndexed' =>
                /\ dirty = "true"
                /\ ~trkOp'.setterErr
                /\ appliedToSGs' = {}
                /\ prevAppliedToSGs' = {}
          /\ (appliedToSGs' # {} \/ prevAppliedToSGs' # {}) => trackerIndexed'
          /\ trkOp'.setterErr => trackerIndexed' /\ dirty' = "true"]_vars

\* The last group of prevAppliedToSGs was pruned and the tracker removed.
C19_Witness ==
    /\ trkOp.op = "sweep"
    /\ trkOp.wasDirty
    /\ trkOp.pruned
    /\ ~trkOp.setterErr
    /\ ~trackerIndexed
    /\ appliedToSGs = {}
    /\ prevAppliedToSGs = {}

\* A sweep that processed the tracker with no read and no write failure.
SweptClean ==
    /\ trkOp.op = "sweep"
    /\ trkOp.wasDirty
    /\ ~trkOp.setterErr
    /\ ~trkOp.writeFailed

\* A policy of namespace ns is indexed by a group of appliedToSGs.
PolicyApplied(ns) ==
    \E np \in networkPolicies : np.ns = ns /\ np.atgs \cap appliedToSGs # {}

\* C20 as stated: after a sweep with no failure the VM of namespace N has
\* a NetworkPolicyStatus entry exactly if a policy of N has an appliedTo
\* group in appliedToSGs of the VM's tracker.
C20_StatusIffPolicyApplied ==
    SweptClean =>
       \A ns \in vmNamespaces : ns \in DOMAIN vmPolicyIndex <=> PolicyApplied(ns)

\* C20: after a sweep with no failure the VM of namespace N has an entry
\* if a policy of N has an appliedTo group in appliedToSGs, and, when the
\* sweep left prevAppliedToSGs empty, only if.
C20_StatusIfPolicyApplied ==
    SweptClean =>
       \A ns \in vmNamespaces :
          /\ PolicyApplied(ns) => ns \in DOMAIN vmPolicyIndex
          /\ prevAppliedToSGs = {} =>
                (ns \in DOMAIN vmPolicyIndex => PolicyApplied(ns))

\* The sweep wrote the entry of a VM whose group carries a policy of the
\* VM's namespace.
C20_Witness ==
    /\ SweptClean
    /\ prevAppliedToSGs = {}
    /\ \E ns \in vmNamespaces :
          /\ PolicyApplied(ns)
          /\ ns \in DOMAIN vmPolicyIndex
          /\ \E n \in DOMAIN vmPolicyIndex[ns] :
                vmPolicyIndex[ns][n].text = "applied"

\* The step is a sweep that found the tracker dirty.
SweptDirty == Swept /\ trkOp'.wasDirty

\* Every VM of the resource has a NetworkPolicyStatus entry after the step.
RowsPresent == \A ns \in vmNamespaces : ns \in DOMAIN vmPolicyIndex'

\* The sweep of a dirty tracker that holds an appliedTo group leaves every
\* VM of the resource with an entry.
RowWhileApplied == [][(SweptDirty /\ appliedToSGs # {}) => RowsPresent]_vars

\* The call before the step was the update that took the last group out of
\* appliedToSGs, and that group carries no error.
LastGroupRemoved ==
    /\ trkOp.op = "update"
    /\ trkOp.isDelete
    /\ ~trkOp.dup
    /\ appliedToSGs = {}
    /\ sgStatus[trkOp.sg] = "nil"

\* The sweep that follows the removal of the last group takes the entry of
\* every VM out of the index and deletes the tracker.
RowRemovedAfterLastDelete ==
    [][(SweptDirty /\ LastGroupRemoved) =>
          /\ \A ns \in vmNamespaces : ns \notin DOMAIN vmPolicyIndex'
          /\ ~trackerIndexed']_vars

\* C21: every sweep of a dirty tracker leaves a NetworkPolicyStatus entry
\* for every VM whose tracker holds an appliedTo group; and the sweep that
\* follows the removal of the last appliedTo group, when that group carries
\* no error, removes the VM's entry and deletes the tracker.
C21_RowFollowsTracker == RowWhileApplied /\ RowRemovedAfterLastDelete

(***************************************************************************)
(* Properties of computeNPStatus.                                          *)
(***************************************************************************)
\* computeNPStatus has returned.
Computed == trkOp.op = "compute"

\* The policies indexed by a group of appliedToSGs.
AppliedPolicies == {np \in networkPolicies : np.atgs \cap appliedToSGs # {}}

\* The returned status has an entry for policy np.
HasEntry(np) ==
    /\ np.ns \in DOMAIN trkOp.ret
    /\ np.name \in DOMAIN trkOp.ret[np.ns]

\* The entry of policy np under the three cases of the status text, the
\* group being one of appliedToSGs that np is indexed by.
ThreeWayEntry(np) ==
    \E g \in np.atgs \cap appliedToSGs :
       trkOp.ret[np.ns][np.name] =
          IF np \in trkOp.npErr THEN [sg |-> "", text |-> "policy error"]
          ELSE IF sgStatus[g] # "nil" THEN [sg |-> g.name, text |-> "err"]
          ELSE [sg |-> g.name, text |-> "applied"]

\* C22 as stated: every policy indexed by a group of appliedToSGs has the
\* entry [namespace][name], which is the policy's error text when the
\* policy reports an error, otherwise "<sg>=<error>" when the group
\* reports one, otherwise "<sg>=applied".
C22_StatusThreeWay ==
    Computed => \A np \in AppliedPolicies : HasEntry(np) /\ ThreeWayEntry(np)

\* C22: every policy indexed by a group of appliedToSGs has an entry.  For
\* a policy that no group kept in prevAppliedToSGs indexes, the entry is
\* the policy's error text when the policy reports an error; otherwise
\* "<sg>=Internal Error " when the group is not in the appliedTo indexer;
\* otherwise "<sg>=<error>" when the group reports one; otherwise
\* "<sg>=applied".
C22_StatusFourWay ==
    Computed =>
       \A np \in AppliedPolicies :
          /\ HasEntry(np)
          /\ np.atgs \cap prevAppliedToSGs = {} =>
                \E g \in np.atgs \cap appliedToSGs :
                   trkOp.ret[np.ns][np.name] =
                      IF np \in trkOp.npErr
                      THEN [sg |-> "", text |-> "policy error"]
                      ELSE IF g \notin trkOp.atFound
                      THEN [sg |-> g.name, text |-> "Internal Error "]
                      ELSE IF sgStatus[g] # "nil"
                      THEN [sg |-> g.name, text |-> "err"]
                      ELSE [sg |-> g.name, text |-> "applied"]

\* A policy with an error of its own, indexed by a group that has an error
\* too, carries the policy's error.
C22_Witness ==
    /\ Computed
    /\ \E np \in AppliedPolicies :
          /\ np \in trkOp.npErr
          /\ \A g \in np.atgs \cap appliedToSGs :
                g \in trkOp.atFound /\ sgStatus[g] # "nil"
          /\ np.atgs \cap prevAppliedToSGs = {}
          /\ trkOp.ret[np.ns][np.name].text = "policy error"

\* The text reported for a group that is being deleted or detached.
DeleteErrorOf(g) == [sg |-> g.name, text |-> "Deleting/Detaching appliedTo sg"]

\* The policies indexed by group g.
IndexedBy(g) == {np \in networkPolicies : g \in np.atgs}

\* The groups prevAppliedToSGs held at the call that carry an error.
FailedPrev == {g \in trkOp.prev : sgStatus[g] # "nil"}

\* Group g, in no policy's index, is reported under namespace "".
ReportedDangling(g) ==
    /\ "" \in DOMAIN trkOp.ret
    /\ g.name \in DOMAIN trkOp.ret[""]
    /\ trkOp.ret[""][g.name] = DeleteErrorOf(g)

\* Every group of prevAppliedToSGs without an error has left the map and
\* no entry of the status carries its delete error.
CleanPrevDropped ==
    \A g \in trkOp.prev \ FailedPrev :
       /\ g \notin prevAppliedToSGs
       /\ \A ns \in DOMAIN trkOp.ret :
             \A n \in DOMAIN trkOp.ret[ns] : trkOp.ret[ns][n] # DeleteErrorOf(g)

\* C23 as stated: every group of prevAppliedToSGs that carries an error is
\* reported with its delete error under every policy indexed by it, or
\* under namespace "" and its own id when no policy is; every group of
\* prevAppliedToSGs without an error is removed and contributes no entry.
C23_PrevErrorEveryPolicy ==
    Computed =>
       /\ \A g \in FailedPrev :
             IF IndexedBy(g) # {}
             THEN \A np \in IndexedBy(g) :
                     HasEntry(np) /\ trkOp.ret[np.ns][np.name] = DeleteErrorOf(g)
             ELSE ReportedDangling(g)
       /\ CleanPrevDropped

\* C23: every group of prevAppliedToSGs that carries an error stays in the
\* map; every policy indexed by such a group carries the delete error of
\* one of the groups it is indexed by, and a group no policy is indexed by
\* is reported under namespace "" and its own id; every group of
\* prevAppliedToSGs without an error is removed and contributes no entry.
C23_PrevErrorReported ==
    Computed =>
       /\ \A g \in FailedPrev :
             /\ g \in prevAppliedToSGs
             /\ IF IndexedBy(g) # {}
                THEN \A np \in IndexedBy(g) :
                        /\ HasEntry(np)
                        /\ \E h \in np.atgs \cap FailedPrev :
                              trkOp.ret[np.ns][np.name] = DeleteErrorOf(h)
                ELSE ReportedDangling(g)
       /\ CleanPrevDropped

\* One group with an error and no policy was reported under namespace "",
\* the other, without an error, was taken out of prevAppliedToSGs.
C23_Witness ==
    /\ Computed
    /\ \E g \in FailedPrev : IndexedBy(g) = {} /\ ReportedDangling(g)
    /\ trkOp.prev \ FailedPrev # {}
    /\ prevAppliedToSGs = FailedPrev

(***************************************************************************)
(* Properties of the sync of one group.                                    *)
(***************************************************************************)
\* The step is addrSecurityGroup.sync / appliedToSecurityGroup.sync of g.
SyncedAddr(g) == syncPc = "addr" /\ g \in syncPending /\ g \notin syncPending'

SyncedAppliedTo(g) ==
    syncPc = "appliedTo" /\ g \in syncPending /\ g \notin syncPending'

SyncedGroup(g) == SyncedAddr(g) \/ SyncedAppliedTo(g)

\* C24: sync of an address group or an appliedTo group whose deletePending
\* is set leaves the group's state, members, hasMembers and ruleReady, the
\* cloud-rule index, the dirty marks and the cloud as they are, and makes
\* no call.
C24_DeletePendingSkipped ==
    [][\A g \in ManagedSGs :
          (SyncedGroup(g) /\ sgIndex[g].deletePending) =>
             /\ sgIndex' = sgIndex
             /\ cloudRuleIdx' = cloudRuleIdx
             /\ dirtyGroups' = dirtyGroups
             /\ UNCHANGED <<nicGroups, sgInCloud, sgRules, defaultSgCached>>
             /\ \A e \in NewCalls : e.op = "sync"]_vars

\* Both the address group and the appliedTo group were pending delete and
\* were synchronised while a NIC of the cloud still carried them.
C24_Witness ==
    \A g \in {AgA, AtA} :
       /\ sgIndex[g].deletePending
       /\ CallsOf(syncPass, "sync", g) # {}
       /\ g \in DOMAIN snapshot
       /\ \E n \in Nics : g \in nicGroups[n]

\* The step records a call of the given kind.
Logged(op) == \E e \in NewCalls : e.op = op

\* The members the entry of g holds differ from those the snapshot has of
\* g: the entry's VMs count as their NICs when the snapshot has a member.
MembersDiffer(g) ==
    LET m == sgIndex[g].members
        seen == snapshot[g].members
    IN  IF seen # {}
        THEN (IF m.nics # {} THEN m.nics
              ELSE UNION {invNics[v] : v \in m.vms}) # seen
        ELSE m # NoMembers

SyncedWithContent(g) ==
    SyncedAppliedTo(g) /\ ~sgIndex[g].deletePending /\ g \in cloudSeen

\* The rules of the policies that target g, and the rules observed of g.
TargetingRules(g) == IF policy[g].exists THEN policy[g].rules ELSE {}

ObservedRules(g) == snapshot[g].rules

\* The bucket of an item: +1 for every policy rule that has the item as
\* its protocol and port or as a peer, -1 for every observed rule.
Bucket(item, g) ==
    Cardinality({r \in TargetingRules(g) : r.port = item \/ r.peer = item})
    - Cardinality({r \in ObservedRules(g) : r.port = item \/ r.peer = item})

BucketNonZero(g) ==
    \E r \in TargetingRules(g) \cup ObservedRules(g) :
       Bucket(r.port, g) # 0 \/ Bucket(r.peer, g) # 0

\* The cloud-rule index of g holds the observed rules and no other.
IndexMatches(g) == {e.rule : e \in cloudRuleIdx[g]} = ObservedRules(g)

\* C26: in appliedToSecurityGroup.sync with a content of the snapshot, a
\* bucket of the item histogram that is not zero makes sync call
\* updateAllRules; with every bucket zero and the cloud-rule index matching
\* the observed rules, updateAllRules is not called and no rule update is
\* issued.
C26_HistogramTriggersRepush ==
    [][\A g \in AppliedToSGs :
          SyncedWithContent(g) =>
             /\ BucketNonZero(g) => Logged("updateAllRules")
             /\ (~BucketNonZero(g) /\ IndexMatches(g)) =>
                   ~Logged("updateAllRules") /\ ~Logged("rules")]_vars

\* The policy of the group has a rule, the cloud reported the group with
\* no rule, and sync called updateAllRules, which issued a rule update.
C26_Witness ==
    /\ AtA \in cloudSeen
    /\ policy[AtA].exists
    /\ policy[AtA].rules # {}
    /\ snapshot[AtA].rules = {}
    /\ CallsOf(syncPass, "updateAllRules", AtA) # {}
    /\ \E e \in CallsOf(syncPass, "rules", AtA) : e.ok

\* The step records a rule update that the cloud accepted.
RulesPushed == \E e \in NewCalls : e.op = "rules" /\ e.ok

\* C27: appliedToSecurityGroup.sync with a content of the snapshot brings
\* the cloud-rule index of its group to the observed rules before it
\* pushes any rule: unless a rule update went through afterwards, the index
\* of the group holds the observed rules and no other when sync returns;
\* a rule update that went through was computed against the observed
\* rules and leaves the cloud with the rules of the policies; the index of
\* every other appliedTo group is as it was.
C27_IndexMatchesObservation ==
    [][\A g \in AppliedToSGs :
          SyncedWithContent(g) =>
             /\ ~RulesPushed =>
                   {e.rule : e \in cloudRuleIdx'[g]} = ObservedRules(g)
             /\ RulesPushed => sgRules'[g] = TargetingRules(g)
             /\ \A h \in AppliedToSGs \ {g} :
                   cloudRuleIdx'[h] = cloudRuleIdx[h]]_vars

\* The policy's rules are the observed ones, so every bucket is zero, and
\* sync still called updateAllRules: the index pass had changed the index,
\* which now holds the observed rules, next to the index of another group.
C27_Witness ==
    /\ AtA \in cloudSeen
    /\ CallsOf(syncPass, "sync", AtA) # {}
    /\ policy[AtA].exists
    /\ snapshot[AtA].rules # {}
    /\ policy[AtA].rules = snapshot[AtA].rules
    /\ CallsOf(syncPass, "updateAllRules", AtA) # {}
    /\ {e.rule : e \in cloudRuleIdx[AtA]} = snapshot[AtA].rules
    /\ cloudRuleIdx[AtB] # {}

\* The step is appliedToSecurityGroup.sync of g past the deletePending
\* test.
SyncedRules(g) == SyncedAppliedTo(g) /\ ~sgIndex[g].deletePending

\* No drift: the snapshot has the group, the index pass changes nothing
\* and every bucket is zero.
NoDrift(g) == g \in cloudSeen /\ IndexMatches(g) /\ ~BucketNonZero(g)

\* sync does not set ruleReady and marks no tracker.
RuleReadyKept(g) ==
    /\ sgIndex'[g].ruleReady = sgIndex[g].ruleReady
    /\ dirtyGroups' = dirtyGroups

\* C28 as stated: with no drift and a policy that targets the group, sync
\* sets ruleReady and the group's trackers are marked dirty; with drift,
\* with no content in the snapshot, or with no policy, sync does not set
\* ruleReady.
C28_RuleReadyMarksDirty ==
    [][\A g \in AppliedToSGs :
          SyncedRules(g) =>
             IF NoDrift(g) /\ policy[g].exists
             THEN sgIndex'[g].ruleReady /\ g \in dirtyGroups'
             ELSE RuleReadyKept(g)]_vars

\* C28: with no drift and a policy that targets the group, sync sets
\* ruleReady, and the group's trackers are marked dirty if ruleReady was
\* not set before and are left alone if it was; with drift, with no content
\* in the snapshot, or with no policy, sync does not set ruleReady and
\* marks no tracker.
C28_RuleReadyTransition ==
    [][\A g \in AppliedToSGs :
          SyncedRules(g) =>
             IF NoDrift(g) /\ policy[g].exists
             THEN /\ sgIndex'[g].ruleReady
                  /\ IF sgIndex[g].ruleReady
                     THEN dirtyGroups' = dirtyGroups
                     ELSE dirtyGroups' = dirtyGroups \cup {g}
             ELSE RuleReadyKept(g)]_vars

\* A policy targets the group, its rules are the observed and the indexed
\* ones, and sync has set ruleReady and marked the group's trackers.
C28_Witness ==
    /\ AtA \in cloudSeen
    /\ CallsOf(syncPass, "sync", AtA) # {}
    /\ CallsOf(syncPass, "updateAllRules", AtA) = {}
    /\ policy[AtA].exists
    /\ policy[AtA].rules # {}
    /\ sgIndex[AtA].ruleReady
    /\ AtA \in dirtyGroups

(***************************************************************************)
(* Properties of the account pollers.                                      *)
(***************************************************************************)
\* The channels account a's pollers were given.
ChansOf(a) == {c \in DOMAIN pollChans : pollChans[c].acct = a}

RECURSIVE TasksOn(_, _)
\* The polling goroutines on the channels cs of the sequence chans.
TasksOn(chans, cs) == IF cs = {} THEN 0 ELSE LET c == CHOOSE x \in cs : TRUE IN chans[c].tasks + TasksOn(chans, cs \ {c})

\* The polling tasks running for account a: the goroutines whose channel
\* is open.
Running(a) == TasksOn(pollChans, {c \in ChansOf(a) : ~pollChans[c].closed})

\* The step is the end of a polling goroutine: no other step takes one
\* away.
PollingStopped == TasksOn(pollChans', DOMAIN pollChans') < TasksOn(pollChans, DOMAIN pollChans)

\* The step is processCreateOrUpdate of account a past addAccountPoller.
PollerAdded(a) ==
    /\ acctOp'.op = "createOrUpdate"
    /\ acctOp'.acct = a
    /\ acctOp'.reached
    /\ ~PollingStopped

\* The goroutines the step started for account a: none ends in a step of
\* the reconciler.
Started(a) == TasksOn(pollChans', {c \in DOMAIN pollChans' : pollChans'[c].acct = a}) - TasksOn(pollChans, ChansOf(a))

InsideLock(t) == umPc[t] \notin {"idle", "lock"}

\* C30: every read and write of vpcIDToDefaultSecurityGroup is made while
\* the mutex is held, by the call that holds it or by one of its per-NIC
\* goroutines, and a write under way is the only access under way.
C30_CacheUnderMutex ==
    /\ \A x \in cacheAccess : mutex = "held" /\ InsideLock(x.caller)
    /\ \A x, y \in cacheAccess : x.caller = y.caller
    /\ \A t1, t2 \in Callers : InsideLock(t1) /\ InsideLock(t2) => t1 = t2
    /\ \A x \in cacheAccess : x.kind = "write" => cacheAccess = {x}

\* The caller has written the map and two per-NIC goroutines of a call are
\* reading it at once.
C30_Witness ==
    /\ [by |-> "caller", kind |-> "write"] \in cacheLog
    /\ defaultSgCached
    /\ \E x, y \in cacheAccess :
          /\ x # y
          /\ x.worker # 0
          /\ y.worker # 0
          /\ x.kind = "read"
          /\ y.kind = "read"

(***************************************************************************)
(* Properties of the rule descriptions.                                    *)
(***************************************************************************)
\* The places of "/" in the namespaced name of the last call.
Slashes == {i \in DOMAIN descOp.namespacedName : descOp.namespacedName[i] = "/"}

\* The namespaced name is namespace + "/" + name of a policy: one "/",
\* with a namespace before it and a name after it.
OfPolicy == Cardinality(Slashes) = 1 /\ 1 \notin Slashes /\ Len(descOp.namespacedName) \notin Slashes

\* The namespace and the name it was made of.
PolicyNamespace == SubSeq(descOp.namespacedName, 1, (CHOOSE i \in Slashes : TRUE) - 1)

PolicyName == SubSeq(descOp.namespacedName, (CHOOSE i \in Slashes : TRUE) + 1, Len(descOp.namespacedName))

\* C31: GenerateCloudDescription returns an error exactly when the
\* namespaced name does not split into two "/"-separated tokens, and else
\* always the same string for the same arguments; for every policy
\* namespace, policy name and group name, ExtractCloudDescription of the
\* description generated from namespace + "/" + name and the group
\* succeeds and returns exactly (name, namespace, group).
C31_DescriptionRoundTrip ==
    /\ descOp.op = "generate" =>
          /\ descOp.err = (Cardinality(Slashes) # 1)
          /\ descOp.err => descOp.desc = <<>>
          /\ OfPolicy => descOp.desc = <<"name", ":">> \o PolicyName \o <<",", "namespace", ":">> \o PolicyNamespace \o <<",", "appliedToGroup", ":">> \o descOp.appliedToGroup
    /\ descOp.op = "extract" /\ ~descOp.isNil /\ OfPolicy =>
          /\ descOp.ret.ok
          /\ descOp.ret.name = PolicyName
          /\ descOp.ret.namespace = PolicyNamespace
          /\ descOp.ret.appliedToGroup = descOp.appliedToGroup

\* The description of policy b in namespace a for a group whose name holds
\* a "/" was generated and extracted.
C31_Witness ==
    /\ descOp.op = "extract"
    /\ ~descOp.isNil
    /\ descOp.namespacedName = <<"a", "/", "b">>
    /\ descOp.appliedToGroup = <<"a", "/">>
    /\ descOp.ret.ok
    /\ descOp.ret.name = <<"b">>

(***************************************************************************)
(* Properties of a failing rollback.                                       *)
(***************************************************************************)
\* The step is the return of UpdateSecurityGroupRules: the deferred
\* function runs.
RulesReturned == ruPc = "defer" /\ ruPc' = "returned"

\* The rollback calls due at the return: one for each flag set whose list
\* has a rule.
RollbackDue == {k \in 0..2 : StepRules(k) # {} /\ ((k = 0 /\ rollbackRmIngress) \/ (k = 1 /\ rollbackAddIngress) \/ (k = 2 /\ rollbackRmEgress))}

\* The calls the cloud received in the step.
ReceivedAtReturn == SubSeq(cloudLog', Len(cloudLog) + 1, Len(cloudLog'))

\* C32: whatever rollback calls fail, the deferred function issues every
\* rollback call that is due, and the caller receives the error the failed
\* forward step returned.
C32_RollbackFailureKept ==
    [][RulesReturned =>
          /\ ruErr' = ruErr
          /\ Len(ReceivedAtReturn) = Cardinality(RollbackDue)
          /\ \A k \in RollbackDue : \E i \in DOMAIN ReceivedAtReturn : ReceivedAtReturn[i].phase = "rollback" /\ CallSig(ReceivedAtReturn[i]) = InverseCall(k)
          /\ RollbackDue # {} => ruErr \in StepErrors /\ \A k \in RollbackDue : k < FailedStep]_vars

\* The last forward step failed, the first of the three rollback calls
\* failed and the two after it were made and succeeded.
C32_Witness ==
    /\ RuleUpdateFailed
    /\ ruErr = "step3"
    /\ Len(RollbackLog) = 3
    /\ ~RollbackLog[1].ok
    /\ RollbackLog[2].ok
    /\ RollbackLog[3].ok

(***************************************************************************)
(* Properties of BuildVmCache.                                             *)
(***************************************************************************)
\* The step is a BuildVmCache that met no store error.
Built == vmOp'.op = "build" /\ ~vmOp'.storeErr

\* The names in the map handed over.
Discovered == {n \in VmNames : vmOp'.discovered[n].present}

\* The VMs cached for account a in a store.
CachedFor(store, a) == {n \in VmNames : store[n].present /\ store[n].account = a}

\* The store calls the step made for the VM n, by what the store held.
ExpectedCalls(n) ==
    IF n \notin Discovered
    THEN IF n \in CachedFor(vmStore, vmOp'.account) THEN <<"delete">> ELSE <<>>
    ELSE IF ~vmStore[n].present THEN <<"create">>
    ELSE IF vmStore[n].status = vmOp'.discovered[n].status THEN <<>>
    ELSE IF vmStore[n].status.agented # vmOp'.discovered[n].status.agented THEN <<"delete", "create">>
    ELSE <<"update">>

\* C33: after a BuildVmCache with no store error the VMs cached for the
\* account are exactly the VMs of the map, each with the discovered status;
\* the account's cached VMs missing from the map were deleted, an unchanged
\* status caused no store call, and a changed Agented flag a Delete
\* followed by a Create.
C33_CacheIsDiscovered ==
    [][Built =>
          /\ CachedFor(vmStore', vmOp'.account) = Discovered
          /\ \A n \in Discovered : vmStore'[n].status = vmOp'.discovered[n].status
          /\ \A n \in VmNames : vmOp'.calls[n] = ExpectedCalls(n)]_vars

\* No VM of the map is cached for another account when the call is made.
NoForeignKey == \A n \in Discovered : vmStore[n].present => vmStore[n].account = vmOp'.account

\* The same, for the calls in which no VM of the map is cached for another
\* account.
BuildOfOwnKeys ==
    [][Built /\ NoForeignKey =>
          /\ CachedFor(vmStore', vmOp'.account) = Discovered
          /\ \A n \in Discovered : vmStore'[n].status = vmOp'.discovered[n].status
          /\ \A n \in VmNames : vmOp'.calls[n] = ExpectedCalls(n)]_vars


\* A reconcile that found the account and applied it without an error.
AppliedOk == acctOp'.op = "createOrUpdate" /\ ~acctOp'.err /\ ~PollingStopped

\* Start has run in this step.
StartRan == ~initialized /\ initialized'

\* C34: pendingSyncCount is never negative; the sync status is set exactly
\* when Start lists no account or a reconcile that applied the account
\* without an error brings the count from 1 to 0, and is never unset; a
\* reconcile that fails, and a reconcile that finds the account deleted,
\* leave the count as it is.
C34_PendingCountAndStatus ==
    /\ [](pendingSyncCount >= 0)
    /\ [][/\ cpaSynced => cpaSynced'
          /\ StartRan =>
                /\ pendingSyncCount' = Cardinality(acctOp'.listed)
                /\ cpaSynced' <=> acctOp'.listed = {}
          /\ ~StartRan =>
                /\ (~cpaSynced /\ cpaSynced') <=> (AppliedOk /\ pendingSyncCount = 1 /\ pendingSyncCount' = 0)
                /\ AppliedOk => pendingSyncCount' = IF pendingSyncCount > 0 THEN pendingSyncCount - 1 ELSE 0
                /\ ~AppliedOk => pendingSyncCount' = pendingSyncCount]_vars

\* The reconcile of the last pending account has set the sync status, the
\* other account having its poller already.
C34_Witness ==
    /\ acctOp.op = "createOrUpdate"
    /\ ~acctOp.err
    /\ acctOp.pending = 1
    /\ pendingSyncCount = 0
    /\ cpaSynced
    /\ \E a \in Accounts : a # acctOp.acct /\ accPollers[a] # 0


\* C35: the sync status is set only after every account that Start listed
\* has been applied by a reconcile without an error at least once.
C35_SyncedAfterAllListed == cpaSynced => \A a \in cpaListed : cpaOutcome[a] = "applied"

\* A reconcile of a listed account has ended: the account was applied
\* without an error, or was found deleted.
Completed(a) == initialized /\ (a \in cpaListed => cpaOutcome[a] # "none")

\* C36: when every account that Start listed gets a reconcile that ends with
\* the account applied or found deleted, the sync status is set in the end.
C36_CompletedLeadsToSynced == (\A a \in Accounts : <>Completed(a)) => <>cpaSynced


\* C37: whenever appliedToSecurityGroup.sync sets ruleReady, the rules
\* observed of the group in the cloud are the rules of the policies that
\* target it, rule by rule and not only item count by item count.
C37_RuleReadyMeansSameRules ==
    [][\A g \in AppliedToSGs :
          (SyncedRules(g) /\ ~sgIndex[g].ruleReady /\ sgIndex'[g].ruleReady) =>
             ObservedRules(g) = TargetingRules(g)]_vars


\* C38: no sequence of getCloudResourceNPTracker with create set, update
\* and sweep has processCloudResourceNPTrackers read the dirty flag of a
\* tracker whose flag was never stored.
C38_DirtyStoredBeforeRead == trkOp.op # "panic"


\* The call has returned.
ModifyReturned == modPc = "returned"

\* One modify call was made for every network interface of the map and
\* none for any other.
OneCallPerNic ==
    \A n \in ModifyNics :
       modWorker[n].calls = IF n \in networkInterfacesToModify THEN 1 ELSE 0

\* The returned error is not nil.
ErrReturned == modErr # {}

\* A modify call has failed.
SomeModifyFailed == \E n \in networkInterfacesToModify : modWorker[n].failed

\* C39: processNetworkInterfaceModifyConcurrently returns, also for an
\* empty map; when it returns, one modify call was made per network
\* interface of the map, whether or not another one failed, every goroutine
\* has ended, and the returned error is not nil exactly when a modify call
\* failed.  No goroutine is left sending on the closed channel.
C39_ModifyTerminates ==
    /\ <>ModifyReturned
    /\ [](ModifyReturned => OneCallPerNic /\ (ErrReturned <=> SomeModifyFailed))
    /\ [](chClosed => \A n \in ModifyNics : modWorker[n].pc \in {"none", "done"})

\* The call has returned an error after one modify call failed and another
\* one went through.
C39_Witness ==
    /\ ModifyReturned
    /\ ErrReturned
    /\ \E n, m \in networkInterfacesToModify :
          /\ modWorker[n].failed /\ modWorker[n].calls = 1
          /\ ~modWorker[m].failed /\ modWorker[m].calls = 1


\* C40: computeNPStatus is deterministic: what a call returns is what any
\* other evaluation on the same state returns, whatever the order in which
\* the ranges over appliedToSGs and prevAppliedToSGs visit the groups, also
\* when two groups of appliedToSGs index the same policy.
C40_ComputeDeterministic ==
    [][(trkOp'.op = "compute" /\ prevAppliedToSGs' = NewPrevSgs(prevAppliedToSGs, sgStatus)) =>
          \A o \in Orders, po \in Orders :
             trkOp'.ret = ComputeNPStatus(appliedToSGs, prevAppliedToSGs, networkPolicies, sgStatus, trkOp'.npErr, trkOp'.atFound, o, po)]_vars

=============================================================================
